---- MODULE Spec2Model ----
(***************************************************************************)
(* FloatingPanels: the panel store (window_manager.py), the path resolver  *)
(* (find_subpanel), the update fan-out (update_panel / pass_down_changes)  *)
(* and the slot-container reconcilers (slot_containers.py).                *)
(*                                                                         *)
(* The reconcilers, the store write and the path query are functions of    *)
(* their arguments and of the store; each is checked under a specification *)
(* whose initial states draw those arguments from bounded sets and whose   *)
(* actions run the handler once, whole.                                    *)
(***************************************************************************)
EXTENDS Integers, Sequences, FiniteSets, TLC

VARIABLES
    \* ---- ListContainer (slot_containers.py) ----
    container_layout,   \* the QBoxLayout of the list: a sequence of widgets [inst, name]
    idx_to_id,          \* the diff handed to update_from: <<slot_name, idx>> -> id or None
    lc_before,          \* container_layout when update_from was entered
    lc_pc,              \* "ready" before the call, "done" once it returned or raised
    lc_error,           \* the exception update_from ended with, "none" if it returned
    lc_made,            \* the ids make_from_db was called with, in call order
    lc_inserts,         \* the insertWidget calls: [idx, inst, count] (count = layout length at the call)
    \* ---- the store behind db_con (window_manager.py) ----
    db,                 \* what the connection reads: [Panels, Slots, Rows]
    disk,               \* what has been committed
    db_before,          \* db when the handler under check was entered
    \* ---- WindowManager.update_panel ----
    up_panel,           \* panel_widget: [name, type] of the widget that submits
    up_attrs,           \* attribute_dict: None or a dict (sequence of <<key, value>>)
    up_slots,           \* slots_dict: None or a dict (sequence of <<<<slot_name, idx>>, id or None>>)
    up_pc,              \* "idle", "ready", then "returned", "raised" or "hung"
    up_error,           \* the exception update_panel ended with, "none" otherwise
    up_written,         \* TRUE once the write to the store (lines 268-285) is complete
    up_calls,           \* the pass_down_changes calls made on windows: [window, path]
    windows,            \* self.windows in insertion order: [root, wins], wins a set of widget trees
    \* ---- WindowManager.find_subpanel ----
    fs_root,            \* starting_point
    fs_target,          \* target
    fs_pc,              \* "idle", "ready", then "returned" or "hung"
    fs_paths,           \* the list find_subpanel returned (its paths are distinct: a set)
    \* ---- the user at the open windows ----
    ed_pc,              \* "off", or "open" while the event loop takes user edits
    ed_count,           \* the number of handlers run so far
    ed_last,            \* the handler run last
    \* ---- WindowManager.invent_panel ----
    iv_id,              \* panelid
    iv_type,            \* panel_type
    iv_pc,              \* "idle", "ready", then "returned" or "raised"
    iv_error,           \* the exception invent_panel ended with, "none" if it returned
    iv_commits,          \* the store as committed by each db_con.commit() of the call, in order
    \* ---- a slot container given the same diff twice (slot_containers.py) ----
    ra_kind,            \* "list" for a ListContainer, "single" for a SingleContainer
    ra_pc,              \* "idle", "ready", "applied" (first update_from returned), "raised", "reapplied"
    ra_first,           \* the layout the first update_from left
    \* ---- ListContainer.update_from, iteration by iteration ----
    wl_st,              \* the locals of the while loop: [layout, unaddressed, existing, new_idx, made, inserts, error]
    wl_ctx,             \* the locals the first loop fixed: [insert_idx, removed_order]
    wl_pc,              \* "idle", "enter", "loop", then "returned" or "raised"
    \* ---- a sequence of calls on the store (window_manager.py) ----
    so_pc,              \* "idle" or "open"
    so_count,           \* number of calls made so far
    so_last,            \* the last call: [op, id, type, first] (first: no try_init_type_in_db call for the type before it)
    so_error,           \* the exception the last call ended with, "none" if it returned
    so_born,            \* history: id -> the module of its Panels row when the row first appeared
    so_called,          \* history: the types try_init_type_in_db has been called with
    so_log,             \* the store as committed by each commit of the last call, in order
    \* ---- SingleApplication (single_application.py), one entry per launched process ----
    sa_pc,              \* process -> "idle" | "init" | "found" | "not_found" | "serving" | "exited"
    sa_running,         \* process -> self.running: 0 undecided, 1 server, -1 passed its arguments
    sa_err,             \* process -> the error its out_socket reported to not_found, "none" before
    sa_peer,            \* process -> the process its out_socket is connected to, 0 if none
    sa_listening,       \* process -> whether its QLocalServer listens on the name
    sa_socket,          \* the name sid on the system: "absent" | "listening" | "stale"
    sa_pending,         \* the connections queued at the listening server, oldest first (the connecting processes)
    sa_in_socket,       \* process -> the process behind its self.in_socket, 0 if None
    sa_accepted,        \* the connections whose readyRead is connected to receive_message
    sa_readyRead,       \* the connections whose readyRead signal is due at the server
    sa_buffer,          \* the connections holding written arguments nobody has read
    sa_received,        \* the args_received emissions, in order: [at, args], args the process whose tuple it is, 0 for an empty message
    sa_inited,          \* process -> whether init_manager has run: db_con, db_cur, windows and panel_classes are set
    sa_created,         \* the create_window calls, in order: [at, inited], inited the value of sa_inited when the call began
    \* ---- get_slot_widget of the container panel classes (panels/shelves.py, panels/types.py) ----
    gs_widget,          \* the container panel: [type, held], held: slot key -> id of the panel in the slot
    gs_slot,            \* the slot key get_slot_widget is called with
    gs_pc,              \* "idle" | "ready" | "got" | "raised" | "delivered"
    gs_ret,             \* what get_slot_widget returned: [error, kind, at, name]
    \* ---- the window registry and the events of the windows (window_manager.py, panel_widget.py) ----
    wr_opened,          \* history: the windows create_window has registered
    wr_closed,          \* history: the windows whose closed signal window_closed has handled
    wr_alive,           \* the window widgets that exist
    wr_pending,         \* the window widgets with a deleteLater() not yet carried out: [inst, name]
    wr_error,           \* the exception of the last handler, "none" if it returned
    \* ---- fill_slots of a panel with its containers (panels/*.py, slot_containers.py) ----
    fl_widget,          \* the panel: [type, held], held the layout of each container by slot name
    fl_diff,            \* the diff fill_slots is called with
    fl_before,          \* the layouts when fill_slots was called
    fl_pc,              \* "idle" | "ready" | "returned" | "raised"
    fl_error,           \* the exception fill_slots ended with, "none" if it returned
    fl_log              \* the update_from calls fill_slots made, in order: [slot, before, after, made, error]

lc_vars == <<container_layout, idx_to_id, lc_before, lc_pc, lc_error, lc_made, lc_inserts>>
db_vars == <<db, disk, db_before>>
up_vars == <<up_panel, up_attrs, up_slots, up_pc, up_error, up_written, up_calls, windows>>
fs_vars == <<fs_root, fs_target, fs_pc, fs_paths>>
ed_vars == <<ed_pc, ed_count, ed_last>>
iv_vars == <<iv_id, iv_type, iv_pc, iv_error, iv_commits>>
ra_vars == <<ra_kind, ra_pc, ra_first>>
wl_vars == <<wl_st, wl_ctx, wl_pc>>
so_vars == <<so_pc, so_count, so_last, so_error, so_born, so_called, so_log>>
sa_vars == <<sa_pc, sa_running, sa_err, sa_peer, sa_listening, sa_socket, sa_pending, sa_in_socket,
            sa_accepted, sa_readyRead, sa_buffer, sa_received, sa_inited, sa_created>>
gs_vars == <<gs_widget, gs_slot, gs_pc, gs_ret>>
wr_vars == <<wr_opened, wr_closed, wr_alive, wr_pending, wr_error>>
fl_vars == <<fl_widget, fl_diff, fl_before, fl_pc, fl_error, fl_log>>
vars == <<lc_vars, db_vars, up_vars, fs_vars, ed_vars, iv_vars, ra_vars, wl_vars, so_vars, sa_vars, gs_vars, wr_vars, fl_vars>>

-----------------------------------------------------------------------------
(* Bounds of the exploration *)

MaxLen == 3      \* longest live list drawn
MaxKey == 3      \* largest slot index a drawn diff addresses
MaxDiff == 3     \* most keys in a drawn diff
MaxLoopLen == 2  \* longest live list drawn for the stepwise loop
MaxLoopKey == 2  \* largest slot index a diff drawn for the stepwise loop addresses
MaxLoopDiff == 2 \* most keys in a diff drawn for the stepwise loop
MaxAttrKeys == 2 \* most keys in a drawn attribute_dict
MaxSlotNum == 1  \* largest slot index a drawn slots_dict or store addresses
MaxProcs == 3    \* number of instances launched on one server id
MaxFill == 2     \* longest list of a panel handed to fill_slots, most keys of its diff

\* Python's None: a tombstone in a slot diff, an absent row in a query result
None == "None"

ListIds == {"a", "b", "c"}         \* ids the drawn lists hold
AllIds == ListIds \cup {"d"}      \* ids a diff may name

Min(S) == CHOOSE x \in S : \A y \in S : x <= y
Max(S) == CHOOSE x \in S : \A y \in S : x >= y

-----------------------------------------------------------------------------
(* Widget construction *)

\* PanelWidget.__init__ hands the widget itself to try_init_type_in_db, whose
\* first statement binds its argument as an SQL text parameter
\* (window_manager.py:189); sqlite3 refuses to bind a widget and raises
\* ProgrammingError, so no PanelWidget is ever constructed.
PanelWidget_init(name, inst) ==
    [raised |-> TRUE, error |-> "ProgrammingError", widget |-> [inst |-> inst, name |-> name]]

\* make_panel_widget(panelid) without a type: the Panels row is fetched and
\* indexed (entry[0] on None raises TypeError for an unknown id), then the
\* panel class is constructed.
make_panel_widget(panels, panelid, inst) ==
    IF panelid \notin DOMAIN panels
    THEN [raised |-> TRUE, error |-> "TypeError", widget |-> [inst |-> inst, name |-> panelid]]
    ELSE PanelWidget_init(panelid, inst)

\* PanelWidget.make_from_db: wrapper around the manager's make_panel_widget
make_from_db(panels, panelid, inst) == make_panel_widget(panels, panelid, inst)

-----------------------------------------------------------------------------
(* QBoxLayout as the containers use it *)

\* removeWidget(wid); wid.setParent(None)
removeWidget(layout, w) == SelectSeq(layout, LAMBDA x : x # w)

\* insertWidget(idx, w): a widget that is still in the layout is taken out of
\* it first (QLayout::addChildWidget), an index past the end appends.
insertWidget(layout, idx, w) ==
    LET l == removeWidget(layout, w)
        at == IF idx > Len(l) THEN Len(l) ELSE idx
    IN SubSeq(l, 1, at) \o <<w>> \o SubSeq(l, at + 1, Len(l))

-----------------------------------------------------------------------------
(* ListContainer.update_from *)

\* first loop: the first layout index whose key is in the diff, -1 if none
insert_idx_of(layout, d, slot_name) ==
    LET hit == {i \in 0..(Len(layout) - 1) : <<slot_name, i>> \in DOMAIN d}
    IN IF hit = {} THEN -1 ELSE Min(hit)

\* C20 mutant: a first loop that marks every widget removed once a key of the
\* diff is met, the ones before the pivot included
removed_order_whole(layout, pivot) ==
    IF pivot < 0 THEN <<>> ELSE layout

\* removed_order: the widgets from the pivot on, in layout order
removed_order_of(layout, pivot) ==
    IF pivot < 0 THEN <<>> ELSE SubSeq(layout, pivot + 1, Len(layout))

\* existing_widgets: a dict keyed by widget name; a later widget of the same
\* name overwrites an earlier one
existing_widgets_of(removed) ==
    [n \in {removed[i].name : i \in DOMAIN removed} |->
        removed[Max({i \in DOMAIN removed : removed[i].name = n})]]

\* C22 mutant: an iteration that puts the original widget back without
\* moving on to the next index
loop_body_stalling(panels, st, d, slot_name, insert_idx, removed, fresh) ==
    IF <<slot_name, st.new_idx>> \notin DOMAIN d /\ st.new_idx - insert_idx < Len(removed)
    THEN [st EXCEPT !.layout = insertWidget(@, st.new_idx, removed[st.new_idx - insert_idx + 1])]
    ELSE [st EXCEPT !.unaddressed = {}]

\* one iteration of the while loop of update_from on the loop state st;
\* panels is the Panels table make_from_db looks the id up in
loop_body(panels, st, d, slot_name, insert_idx, removed, fresh) ==
    LET slot == <<slot_name, st.new_idx>>
        ins(w) == [idx |-> st.new_idx, inst |-> w.inst, count |-> Len(st.layout)]
    IN
    IF slot \in DOMAIN d THEN
      LET new_panelid == d[slot] IN
      IF new_panelid = None THEN
          [st EXCEPT !.unaddressed = @ \ {slot}, !.new_idx = @ + 1]
      ELSE IF new_panelid \notin DOMAIN st.existing THEN
          LET r == make_from_db(panels, new_panelid, Append(fresh, Len(st.made))) IN
          IF r.raised
          THEN [st EXCEPT !.made = Append(@, new_panelid), !.error = r.error]
          ELSE [st EXCEPT !.made = Append(@, new_panelid),
                          !.layout = insertWidget(@, st.new_idx, r.widget),
                          !.inserts = Append(@, ins(r.widget)),
                          !.unaddressed = @ \ {slot},
                          !.new_idx = @ + 1]
      ELSE
          LET wid == st.existing[new_panelid] IN
          [st EXCEPT !.existing = [n \in (DOMAIN @) \ {new_panelid} |-> @[n]],
                     !.layout = insertWidget(@, st.new_idx, wid),
                     !.inserts = Append(@, ins(wid)),
                     !.unaddressed = @ \ {slot},
                     !.new_idx = @ + 1]
    ELSE IF st.new_idx - insert_idx < Len(removed) THEN
      LET wid == removed[st.new_idx - insert_idx + 1] IN
      [st EXCEPT !.layout = insertWidget(@, st.new_idx, wid),
                 !.inserts = Append(@, ins(wid)),
                 !.new_idx = @ + 1]
    ELSE [st EXCEPT !.error = "IndexGap"]

\* the while loop of update_from, from the loop state st: iterations until
\* unaddressed is empty or an exception leaves the loop
RECURSIVE fill_from(_, _, _, _, _, _, _)
fill_from(panels, st, d, slot_name, insert_idx, removed, fresh) ==
    IF st.unaddressed = {} \/ st.error # "none" THEN st
    ELSE fill_from(panels, loop_body(panels, st, d, slot_name, insert_idx, removed, fresh),
                   d, slot_name, insert_idx, removed, fresh)

\* ListContainer.update_from(idx_to_id) on a layout.  An instance is named by
\* a sequence of numbers; fresh is the prefix of the names of the widgets
\* this call constructs
ListContainer_update_from(panels, layout, d, slot_name, fresh) ==
    LET pivot == insert_idx_of(layout, d, slot_name)
        removed == removed_order_of(layout, pivot)
        kept == IF pivot < 0 THEN layout ELSE SubSeq(layout, 1, pivot)
        insert_idx == IF pivot < 0 THEN Len(kept) ELSE pivot
    IN fill_from(panels,
                 [layout |-> kept,
                  unaddressed |-> {k \in DOMAIN d : k[1] = slot_name},
                  existing |-> existing_widgets_of(removed),
                  new_idx |-> insert_idx,
                  made |-> <<>>,
                  inserts |-> <<>>,
                  error |-> "none"],
                 d, slot_name, insert_idx, removed, fresh)

-----------------------------------------------------------------------------
(* SingleContainer.update_from *)

\* get_panel_widget(): the widget of the container, None if it is empty
get_panel_widget(layout) == IF Len(layout) = 0 THEN None ELSE layout[1]

\* C40 mutant: a SingleContainer.update_from that looks the diff up by slot
\* number alone, whatever slot name the key carries
SingleContainer_update_from_any_name(panels, layout, d, slot_name, fresh) ==
    LET hits == {k \in DOMAIN d : k[2] = 0}
    IN IF hits = {} THEN [layout |-> layout, error |-> "none"]
       ELSE LET key == CHOOSE k \in hits : TRUE
            IN IF d[key] = None
               THEN IF Len(layout) = 0
                    THEN [layout |-> layout, error |-> "AttributeError"]
                    ELSE [layout |-> removeWidget(layout, layout[1]), error |-> "none"]
               ELSE LET room == IF Len(layout) # 0 THEN removeWidget(layout, layout[1]) ELSE layout
                        new_widget == make_from_db(panels, d[key], Append(fresh, 0))
                    IN IF new_widget.raised
                       THEN [layout |-> room, error |-> new_widget.error]
                       ELSE [layout |-> Append(room, new_widget.widget), error |-> "none"]

\* SingleContainer.update_from(idx_to_id) on a layout.  On an empty container
\* the tombstone branch calls setParent on the None get_panel_widget returned.
SingleContainer_update_from(panels, layout, d, slot_name, fresh) ==
    LET key == <<slot_name, 0>>
    IN IF key \notin DOMAIN d THEN [layout |-> layout, error |-> "none"]
       ELSE IF d[key] = None
       THEN IF Len(layout) = 0
            THEN [layout |-> layout, error |-> "AttributeError"]
            ELSE [layout |-> removeWidget(layout, layout[1]), error |-> "none"]
       ELSE LET room == IF Len(layout) # 0 THEN removeWidget(layout, layout[1]) ELSE layout
                new_widget == make_from_db(panels, d[key], Append(fresh, 0))
            IN IF new_widget.raised
               THEN [layout |-> room, error |-> new_widget.error]
               ELSE [layout |-> Append(room, new_widget.widget), error |-> "none"]

-----------------------------------------------------------------------------
(* Slot names *)

elem == "elem"   \* the slot name of a shelf's list (shelves.py:52)
body == "body"   \* the slot name of a footnote's container (shelves.py:86)

-----------------------------------------------------------------------------
(* Python dicts: insertion-ordered, keys distinct; a sequence of <<key, value>> *)

dict_keys(d) == {d[i][1] : i \in DOMAIN d}
dict_get(d, k) == d[CHOOSE i \in DOMAIN d : d[i][1] = k][2]
dict_map(d) == [k \in dict_keys(d) |-> dict_get(d, k)]

\* the dicts over the given keys and values, one per insertion order
RECURSIVE DictsOver(_, _, _)
DictsOver(keys, values, n) ==
    IF n = 0 \/ keys = {} THEN {<<>>}
    ELSE {<<>>} \cup
         UNION {{<<<<k, v>>>> \o rest : rest \in DictsOver(keys \ {k}, values, n - 1)} :
                    k \in keys, v \in values}

-----------------------------------------------------------------------------
(* The panel classes (PANEL_TYPES) *)

\* panel_class.attributes(): the columns of the type's table
attributes(t) ==
    CASE t = "task" -> {"checked"}
      [] t = "number" -> {"value"}
      [] t = "calendar" -> {"month", "year"}
      [] OTHER -> {}

-----------------------------------------------------------------------------
(* The store: db is [Panels: id -> module,                                  *)
(*                   Slots: <<parent, slot_name, slot_num>> -> child,       *)
(*                   Rows: type table -> (panelid -> (column -> value))]    *)

\* open_db on a new file: the Panels and Slots tables, both empty
open_db == [Panels |-> <<>>, Slots |-> <<>>, Rows |-> <<>>]

\* type_of_panel: the module of the Panels row, None if there is no row
type_of_panel(d, panelid) ==
    IF panelid \in DOMAIN d.Panels THEN d.Panels[panelid] ELSE None

\* get_slots_dict: the Slots rows of the parent as a dict, None if none
\* (none = TRUE stands for the None result)
get_slots_dict(d, name) ==
    LET rows == {k \in DOMAIN d.Slots : k[1] = name}
    IN [none |-> rows = {},
        map |-> [k \in {<<r[2], r[3]>> : r \in rows} |-> d.Slots[<<name, k[1], k[2]>>]]]

\* get_attributes_dict: the panel's row of its type's table (the panelid
\* column included), None for a type without attributes
get_attributes_dict(d, name, type) ==
    [none |-> attributes(type) = {},
     map |-> [c \in (IF attributes(type) = {} THEN {} ELSE attributes(type) \cup {"panelid"}) |->
                 IF c = "panelid" THEN name ELSE d.Rows[type][name][c]]]

\* C27 mutant: an UPDATE without its WHERE clause, writing every row of the
\* type's table
RECURSIVE write_attributes_unfiltered(_, _, _, _)
write_attributes_unfiltered(st, table, panelid, items) ==
    IF items = <<>> THEN st
    ELSE IF table \notin DOMAIN st.db.Rows \/ items[1][1] \notin attributes(table)
    THEN [st EXCEPT !.error = "OperationalError"]
    ELSE LET written ==
                [st.db EXCEPT !.Rows[table] =
                    [r \in DOMAIN @ |-> [@[r] EXCEPT ![items[1][1]] = items[1][2]]]]
         IN write_attributes_unfiltered([db |-> written, disk |-> written, error |-> "none"],
                                        table, panelid, Tail(items))

\* update_panel, attribute part: one UPDATE and one commit per item of the
\* dict; a missing table or column raises OperationalError at that item
RECURSIVE write_attributes(_, _, _, _)
write_attributes(st, table, panelid, items) ==
    IF items = <<>> THEN st
    ELSE LET key == items[1][1]
             val == items[1][2]
         IN IF table \notin DOMAIN st.db.Rows \/ key \notin attributes(table)
            THEN [st EXCEPT !.error = "OperationalError"]
            ELSE LET written ==
                        [st.db EXCEPT !.Rows[table] =
                            [r \in DOMAIN @ |-> IF r = panelid THEN [@[r] EXCEPT ![key] = val]
                                                ELSE @[r]]]
                 IN write_attributes([db |-> written, disk |-> written, error |-> "none"],
                                     table, panelid, Tail(items))

\* C6 mutant: a write in which the DELETE of the tombstoned slots is left out
delete_slots_skipped(slots, deletes) == slots

\* C16 mutant: a DELETE that closes the gap it opens, renumbering the later
\* rows of the slot name
RECURSIVE delete_slots_renumbering(_, _)
delete_slots_renumbering(slots, deletes) ==
    IF deletes = <<>> THEN slots
    ELSE LET gone == deletes[1]
             kept == (DOMAIN slots) \ {gone}
             moved(k) == IF k[1] = gone[1] /\ k[2] = gone[2] /\ k[3] > gone[3]
                         THEN <<k[1], k[2], k[3] - 1>> ELSE k
         IN delete_slots_renumbering(
                [k \in {moved(j) : j \in kept} |-> slots[CHOOSE j \in kept : moved(j) = k]],
                Tail(deletes))

\* executemany("DELETE FROM Slots WHERE (parent, slot_name, slot_num) = (?,?,?)")
RECURSIVE delete_slots(_, _)
delete_slots(slots, deletes) ==
    IF deletes = <<>> THEN slots
    ELSE delete_slots([k \in (DOMAIN slots) \ {deletes[1]} |-> slots[k]], Tail(deletes))

\* executemany("INSERT OR REPLACE INTO Slots VALUES(?,?,?,?)")
RECURSIVE replace_slots(_, _)
replace_slots(slots, updates) ==
    IF updates = <<>> THEN slots
    ELSE LET key == <<updates[1][1], updates[1][2], updates[1][3]>>
         IN replace_slots([k \in (DOMAIN slots) \cup {key} |->
                               IF k = key THEN updates[1][4] ELSE slots[k]],
                          Tail(updates))

\* update_panel, slot part: the deletes, then the replaces, then one commit
write_slots(st, panelid, slots_dict) ==
    LET del == SelectSeq(slots_dict, LAMBDA x : x[2] = None)
        upd == SelectSeq(slots_dict, LAMBDA x : x[2] # None)
        deletes == [i \in DOMAIN del |-> <<panelid, del[i][1][1], del[i][1][2]>>]
        updates == [i \in DOMAIN upd |-> <<panelid, upd[i][1][1], upd[i][1][2], upd[i][2]>>]
        written == [st.db EXCEPT !.Slots = replace_slots(delete_slots(@, deletes), updates)]
    IN [db |-> written, disk |-> written, error |-> "none"]

\* update_panel, lines 268-285: the write to the store
store_write(d, committed, panel_widget, attribute_dict, slots_dict) ==
    LET st0 == [db |-> d, disk |-> committed, error |-> "none"]
        st1 == IF attribute_dict # None
               THEN write_attributes(st0, panel_widget.type, panel_widget.name, attribute_dict)
               ELSE st0
    IN IF st1.error # "none" THEN st1
       ELSE IF slots_dict # None THEN write_slots(st1, panel_widget.name, slots_dict)
       ELSE st1

-----------------------------------------------------------------------------
(* find_subpanel: the recursive query and the parsing of its path strings.  *)
(* A path string is kept as its sequence of lexemes: slot names, slot       *)
(* numbers and the separators "/" and ":" the query puts between them.      *)

\* the decimal text of a slot number, as || and int() convert it
Digits == <<"0", "1", "2", "3", "4", "5", "6", "7", "8", "9">>
str(n) == Digits[n + 1]
int(text) == (CHOOSE i \in DOMAIN Digits : Digits[i] = text) - 1

\* ':0', the path of the starting row
start_path == <<":", "0">>

\* C8 mutant: a join that drops the slot number from the path it builds
extend_path_without_num(path, slot_name, slot_num) == path \o <<"/", slot_name, ":", str(0)>>

\* Paths.path || '/' || Slots.slot_name || ':' || Slots.slot_num
extend_path(path, slot_name, slot_num) == path \o <<"/", slot_name, ":", str(slot_num)>>

\* path.split("/"): the pieces between the "/" lexemes
RECURSIVE split_path(_, _)
split_path(path, piece) ==
    IF path = <<>> THEN <<piece>>
    ELSE IF Head(path) = "/" THEN <<piece>> \o split_path(Tail(path), <<>>)
    ELSE split_path(Tail(path), Append(piece, Head(path)))

\* (step[:step.index(':')], int(step[step.index(':')+1:])) of one piece; the
\* name of the piece ':0' is the empty string
parse_step(step) ==
    LET colon == Min({i \in DOMAIN step : step[i] = ":"})
    IN <<IF colon = 1 THEN "" ELSE step[1], int(step[colon + 1])>>

parse_path(path) ==
    LET pieces == split_path(path, <<>>)
    IN [i \in DOMAIN pieces |-> parse_step(pieces[i])]

\* the ids the slot table names, with the starting point
graph_nodes(d, starting_point) ==
    {starting_point} \cup {k[1] : k \in DOMAIN d.Slots} \cup {d.Slots[k] : k \in DOMAIN d.Slots}

\* The rows of Paths: the rows reached by `steps` joins, and all later ones.
\* UNION ALL keeps every row and nothing stops the recursion, so the query
\* ends only when a round of joins yields no row.  A row reached by as many
\* joins as there are ids has walked through some id twice: the slots form a
\* cycle below the starting point and the recursion yields rows for ever.
RECURSIVE paths_rows(_, _, _, _)
paths_rows(d, frontier, steps, cap) ==
    IF frontier = {} THEN [diverged |-> FALSE, rows |-> {}]
    ELSE IF steps >= cap THEN [diverged |-> TRUE, rows |-> {}]
    ELSE LET joined(row) == {<<d.Slots[k], extend_path(row[2], k[2], k[3])>> :
                                 k \in {j \in DOMAIN d.Slots : j[1] = row[1]}}
             next == UNION {joined(row) : row \in frontier}
             rest == paths_rows(d, next, steps + 1, cap)
         IN [diverged |-> rest.diverged, rows |-> frontier \cup rest.rows]

\* find_subpanel(starting_point, target): the parsed paths of the rows whose
\* name is the target; diverged when fetchall never returns
find_subpanel(d, starting_point, target) ==
    LET q == paths_rows(d, {<<starting_point, start_path>>}, 0,
                        Cardinality(graph_nodes(d, starting_point)))
    IN [diverged |-> q.diverged,
        paths |-> IF q.diverged THEN {}
                  ELSE {parse_path(row[2]) : row \in {r \in q.rows : r[1] = target}}]

-----------------------------------------------------------------------------
(* Panel creation: invent_panel and try_init_type_in_db.  The state of a    *)
(* call is [db, disk, commits, error]; commits logs the store as each       *)
(* db_con.commit() leaves it.                                               *)

\* the value of a column no statement has set (INSERT INTO type(panelid))
NULL == -1

\* panel_classes: the panel_type() of every class of PANEL_TYPES
PanelTypes ==
    {"vshelf", "hshelf", "task", "number", "type", "footnote", "creator", "finder",
     "calendar", "matrix"}

\* a registry in which every class keeps PanelWidget's allow_user_creation()
allow_user_creation_inherited(t) == TRUE

\* panel_class.allow_user_creation()
allow_user_creation(t) == t # "type"

\* QDate.currentDate() when default_attributes runs
right_now == [month |-> 1, year |-> 1]

\* panel_class.default_attributes(), False stored as 0
default_attributes(t) ==
    CASE t = "task" -> <<<<"checked", 0>>>>
      [] t = "number" -> <<<<"value", 0>>>>
      [] t = "calendar" -> <<<<"month", right_now.month>>, <<"year", right_now.year>>>>
      [] OTHER -> <<>>

\* db_con.commit()
commit(st) == [st EXCEPT !.disk = st.db, !.commits = Append(@, st.db)]

\* C26 mutant: a try_init_type_in_db whose INSERT of the registry row
\* replaces an existing row of that id
try_init_type_in_db_replacing(st, panel_type) ==
    IF panel_type \in DOMAIN st.db.Panels /\ st.db.Panels[panel_type] = "type" THEN st
    ELSE LET typed == commit([st EXCEPT !.db.Panels =
                                 [i \in (DOMAIN @) \cup {panel_type} |->
                                     IF i = panel_type THEN "type" ELSE @[i]]])
         IN IF attributes(panel_type) # {} /\ panel_type \notin DOMAIN typed.db.Rows
            THEN commit([typed EXCEPT !.db.Rows =
                            [t \in (DOMAIN @) \cup {panel_type} |->
                                IF t = panel_type THEN <<>> ELSE @[t]]])
            ELSE typed

\* try_init_type_in_db(panel_type) with the name of a registered type
try_init_type_in_db(st, panel_type) ==
    IF panel_type \in DOMAIN st.db.Panels /\ st.db.Panels[panel_type] = "type" THEN st
    ELSE IF panel_type \in DOMAIN st.db.Panels THEN [st EXCEPT !.error = "IntegrityError"]
    ELSE LET typed == commit([st EXCEPT !.db.Panels =
                                 [i \in (DOMAIN @) \cup {panel_type} |->
                                     IF i = panel_type THEN "type" ELSE @[i]]])
         IN IF attributes(panel_type) # {} /\ panel_type \notin DOMAIN typed.db.Rows
            THEN commit([typed EXCEPT !.db.Rows =
                            [t \in (DOMAIN @) \cup {panel_type} |->
                                IF t = panel_type THEN <<>> ELSE @[t]]])
            ELSE typed

\* the loop over default_attributes().items(): one UPDATE and one commit each
RECURSIVE write_defaults(_, _, _, _)
write_defaults(st, panel_type, panelid, items) ==
    IF items = <<>> THEN st
    ELSE write_defaults(commit([st EXCEPT !.db.Rows[panel_type][panelid][items[1][1]] = items[1][2]]),
                        panel_type, panelid, Tail(items))

\* invent_panel(panelid, panel_type)
invent_panel(d, committed, panelid, panel_type) ==
    LET st0 == [db |-> d, disk |-> committed, commits |-> <<>>, error |-> "none"]
    IN IF panelid = "" THEN [st0 EXCEPT !.error = "Exception"]
       ELSE IF panel_type \notin PanelTypes THEN [st0 EXCEPT !.error = "KeyError"]
       ELSE IF ~allow_user_creation(panel_type) THEN [st0 EXCEPT !.error = "Exception"]
       ELSE LET st1 == try_init_type_in_db(st0, panel_type)
            IN IF st1.error # "none" THEN st1
               ELSE IF panelid \in DOMAIN st1.db.Panels THEN [st1 EXCEPT !.error = "IntegrityError"]
               ELSE LET st2 == [st1 EXCEPT !.db.Panels =
                                    [i \in (DOMAIN @) \cup {panelid} |->
                                        IF i = panelid THEN panel_type ELSE @[i]]]
                    IN IF attributes(panel_type) = {}
                       THEN commit(st2)
                       ELSE IF panelid \in DOMAIN st2.db.Rows[panel_type]
                       THEN [st2 EXCEPT !.error = "IntegrityError"]
                       ELSE write_defaults(
                                commit([st2 EXCEPT !.db.Rows[panel_type] =
                                           [r \in (DOMAIN @) \cup {panelid} |->
                                               IF r = panelid
                                               THEN [c \in attributes(panel_type) |-> NULL]
                                               ELSE @[r]]]),
                                panel_type, panelid, default_attributes(panel_type))

-----------------------------------------------------------------------------
(* Live widgets: [inst, name, type, layout, text].  layout is the list of   *)
(* a shelf's ListContainer, text the caption of a task's checkbox.          *)

\* fill_attributes of the panel classes
fill_attributes(w, attrs) ==
    IF w.type = "task"
    THEN [widget |-> IF "checked" \in dict_keys(attrs)
                     THEN [w EXCEPT !.text = IF dict_get(attrs, "checked") # 0 THEN "v" ELSE ""]
                     ELSE w,
          error |-> "none"]
    ELSE [widget |-> w, error |-> "NotImplementedError"]

\* fill_slots of the panel classes: a shelf hands the dict to its list
fill_slots(panels, w, slots) ==
    IF w.type = "vshelf"
    THEN LET r == ListContainer_update_from(panels, w.layout, dict_map(slots), elem, w.inst)
         IN [widget |-> [w EXCEPT !.layout = r.layout], error |-> r.error]
    ELSE [widget |-> w, error |-> "NotImplementedError"]

\* get_slot_widget of the panel classes; panel_widget_at past the end of the
\* list calls .widget() on None
get_slot_widget(w, slot) ==
    IF w.type # "vshelf" THEN [error |-> "NotImplementedError", idx |-> 0]
    ELSE IF slot[1] # elem THEN [error |-> "Exception", idx |-> 0]
    ELSE IF slot[2] + 1 \notin DOMAIN w.layout THEN [error |-> "AttributeError", idx |-> 0]
    ELSE [error |-> "none", idx |-> slot[2] + 1]

\* PanelWidget.pass_down_changes
RECURSIVE pass_down_changes(_, _, _, _, _)
pass_down_changes(panels, w, path_to_panel, attribute_dict, slots_dict) ==
    IF Len(path_to_panel) = 0 THEN
        LET a == IF attribute_dict # None /\ Len(attribute_dict) > 0
                 THEN fill_attributes(w, attribute_dict)
                 ELSE [widget |-> w, error |-> "none"]
        IN IF a.error # "none" THEN a
           ELSE IF slots_dict # None /\ Len(slots_dict) > 0
           THEN fill_slots(panels, a.widget, slots_dict)
           ELSE a
    ELSE
        LET next_step == path_to_panel[1]
            g == get_slot_widget(w, next_step)
        IN IF g.error # "none" THEN [widget |-> w, error |-> g.error]
           ELSE LET r == pass_down_changes(panels, w.layout[g.idx], Tail(path_to_panel),
                                           attribute_dict, slots_dict)
                IN [widget |-> [w EXCEPT !.layout[g.idx] = r.widget], error |-> r.error]

-----------------------------------------------------------------------------
(* update_panel, lines 286-293: the fan-out to the windows *)

\* the orders a set can be iterated in
Orders(S) == {q \in [1..Cardinality(S) -> S] : \A i, j \in 1..Cardinality(S) : i # j => q[i] # q[j]}

\* for window in window_id[1]: for path in paths_to_panel: the calls for one
\* entry of self.windows, for every order the set and the rows can come in
entry_deliveries(i, wins, paths) ==
    {[m \in 1..(Len(ws) * Len(ps)) |->
         [entry |-> i, window |-> ws[((m - 1) \div Len(ps)) + 1], path |-> ps[((m - 1) % Len(ps)) + 1]]] :
     ws \in Orders({w.inst : w \in wins}), ps \in Orders(paths)}

\* for window_id in self.windows.items(): the calls of the whole loop, up to
\* the first entry whose find_subpanel does not return
RECURSIVE fan_out_plans(_, _, _, _)
fan_out_plans(d, reg, i, panelid) ==
    IF i > Len(reg) THEN {[deliveries |-> <<>>, hangs |-> FALSE]}
    ELSE LET paths_to_panel == find_subpanel(d, reg[i].root, panelid)
         IN IF paths_to_panel.diverged THEN {[deliveries |-> <<>>, hangs |-> TRUE]}
            ELSE {[deliveries |-> here \o rest.deliveries, hangs |-> rest.hangs] :
                     here \in entry_deliveries(i, reg[i].wins, paths_to_panel.paths),
                     rest \in fan_out_plans(d, reg, i + 1, panelid)}

\* window.pass_down_changes(path[1:], attribute_dict, slots_dict), call by
\* call; an exception of a call ends the loop
RECURSIVE deliver(_, _, _, _, _)
deliver(panels, st, deliveries, attribute_dict, slots_dict) ==
    IF deliveries = <<>> \/ st.error # "none" THEN st
    ELSE LET x == deliveries[1]
             window == CHOOSE w \in st.windows[x.entry].wins : w.inst = x.window
             r == pass_down_changes(panels, window, Tail(x.path), attribute_dict, slots_dict)
         IN deliver(panels,
                    [windows |-> [st.windows EXCEPT ![x.entry].wins = (@ \ {window}) \cup {r.widget}],
                     calls |-> Append(st.calls, [window |-> x.window, path |-> Tail(x.path)]),
                     error |-> r.error],
                    Tail(deliveries), attribute_dict, slots_dict)

\* update_panel(panel_widget, attribute_dict, slots_dict) on a store (what
\* the connection reads, what is committed) and a registry of windows: the
\* ways the call can end.  An exception of the write ends it before the loop
\* over the windows.
update_panel_outcomes(d, committed, reg, panel_widget, attribute_dict, slots_dict) ==
    LET w == store_write(d, committed, panel_widget, attribute_dict, slots_dict)
    IN IF w.error # "none"
       THEN {[db |-> w.db, disk |-> w.disk, written |-> FALSE, windows |-> reg,
              calls |-> <<>>, error |-> w.error, pc |-> "raised"]}
       ELSE {LET f == deliver(w.db.Panels, [windows |-> reg, calls |-> <<>>, error |-> "none"],
                              plan.deliveries, attribute_dict, slots_dict)
             IN [db |-> w.db, disk |-> w.disk, written |-> TRUE, windows |-> f.windows,
                 calls |-> f.calls, error |-> f.error,
                 pc |-> IF f.error # "none" THEN "raised"
                        ELSE IF plan.hangs THEN "hung"
                        ELSE "returned"] :
             plan \in fan_out_plans(w.db, reg, 1, panel_widget.name)}

-----------------------------------------------------------------------------
(* Specification of the list reconciler: a live list and a diff are drawn, *)
(* update_from runs once.                                                  *)

\* the Panels table the list harness materializes from: every id is a panel
ListPanels == [p \in AllIds |-> "task"]

\* live lists: widget i of the list is instance <<i>>
Layouts ==
    UNION {{[i \in 1..n |-> [inst |-> <<i>>, name |-> f[i]]] : f \in [1..n -> ListIds]} : n \in 0..MaxLen}

DiffKeys == {<<elem, i>> : i \in 0..MaxKey}

Diffs ==
    UNION {[K -> AllIds \cup {None}] : K \in {S \in SUBSET DiffKeys : Cardinality(S) <= MaxDiff}}

\* the parts of the state a specification does not exercise
ListIdle ==
    /\ container_layout = <<>>
    /\ idx_to_id = <<>>
    /\ lc_before = <<>>
    /\ lc_pc = "idle"
    /\ lc_error = "none"
    /\ lc_made = <<>>
    /\ lc_inserts = <<>>

UpdateIdle ==
    /\ up_panel = None
    /\ up_attrs = None
    /\ up_slots = None
    /\ up_pc = "idle"
    /\ up_error = "none"
    /\ up_written = FALSE
    /\ up_calls = <<>>
    /\ windows = <<>>

PathsIdle ==
    /\ fs_root = None
    /\ fs_target = None
    /\ fs_pc = "idle"
    /\ fs_paths = {}

EditIdle ==
    /\ ed_pc = "off"
    /\ ed_count = 0
    /\ ed_last = "none"

InventIdle ==
    /\ iv_id = None
    /\ iv_type = None
    /\ iv_pc = "idle"
    /\ iv_error = "none"
    /\ iv_commits = <<>>

ReapplyIdle ==
    /\ ra_kind = None
    /\ ra_pc = "idle"
    /\ ra_first = <<>>

\* the locals of update_from before the call has set them
unset_st ==
    [layout |-> <<>>, unaddressed |-> {}, existing |-> <<>>, new_idx |-> 0,
     made |-> <<>>, inserts |-> <<>>, error |-> "none"]
unset_ctx == [insert_idx |-> 0, removed_order |-> <<>>]

LoopIdle ==
    /\ wl_st = unset_st
    /\ wl_ctx = unset_ctx
    /\ wl_pc = "idle"

\* no call made yet
no_call == [op |-> "none", id |-> None, type |-> None, first |-> FALSE]

StoreOpsIdle ==
    /\ so_pc = "idle"
    /\ so_count = 0
    /\ so_last = no_call
    /\ so_error = "none"
    /\ so_born = <<>>
    /\ so_called = {}
    /\ so_log = <<>>

\* the launched processes
Procs == 1..MaxProcs

\* the state of a SingleApplication after __init__, and of the server name
\* before any process has used it
SingleRest ==
    /\ sa_running = [p \in Procs |-> 0]
    /\ sa_err = [p \in Procs |-> "none"]
    /\ sa_peer = [p \in Procs |-> 0]
    /\ sa_listening = [p \in Procs |-> FALSE]
    /\ sa_socket = "absent"
    /\ sa_pending = <<>>
    /\ sa_in_socket = [p \in Procs |-> 0]
    /\ sa_accepted = {}
    /\ sa_readyRead = {}
    /\ sa_buffer = {}
    /\ sa_received = <<>>
    /\ sa_inited = [p \in Procs |-> FALSE]
    /\ sa_created = <<>>

SingleIdle ==
    /\ sa_pc = [p \in Procs |-> "idle"]
    /\ SingleRest

\* no get_slot_widget call made
no_ret == [error |-> "none", kind |-> "none", at |-> <<>>, name |-> None]

SlotIdle ==
    /\ gs_widget = [type |-> "none", held |-> <<>>]
    /\ gs_slot = <<>>
    /\ gs_pc = "idle"
    /\ gs_ret = no_ret

RegistryIdle ==
    /\ wr_opened = {}
    /\ wr_closed = {}
    /\ wr_alive = {}
    /\ wr_pending = {}
    /\ wr_error = "none"

FillIdle ==
    /\ fl_widget = [type |-> "none", held |-> <<>>]
    /\ fl_diff = <<>>
    /\ fl_before = <<>>
    /\ fl_pc = "idle"
    /\ fl_error = "none"
    /\ fl_log = <<>>

StoreIdle ==
    /\ db = open_db
    /\ disk = open_db
    /\ db_before = open_db

InitList ==
    /\ container_layout \in Layouts
    /\ idx_to_id \in Diffs
    /\ lc_before = container_layout
    /\ lc_pc = "ready"
    /\ lc_error = "none"
    /\ lc_made = <<>>
    /\ lc_inserts = <<>>
    /\ StoreIdle
    /\ UpdateIdle
    /\ PathsIdle
    /\ EditIdle
    /\ InventIdle
    /\ ReapplyIdle
    /\ LoopIdle
    /\ StoreOpsIdle
    /\ SingleIdle
    /\ SlotIdle
    /\ RegistryIdle
    /\ FillIdle

update_from ==
    /\ lc_pc = "ready"
    /\ LET r == ListContainer_update_from(ListPanels, container_layout, idx_to_id, elem, <<0>>)
       IN /\ container_layout' = r.layout
          /\ lc_error' = r.error
          /\ lc_made' = r.made
          /\ lc_inserts' = r.inserts
    /\ lc_pc' = "done"
    /\ UNCHANGED <<idx_to_id, lc_before, db_vars, up_vars, fs_vars, ed_vars, iv_vars, ra_vars, wl_vars, so_vars, sa_vars, gs_vars, wr_vars, fl_vars>>

NextList == update_from

SpecList == InitList /\ [][NextList]_vars

-----------------------------------------------------------------------------
(* Specification of a repeated delivery: a live container and a diff are    *)
(* drawn, update_from runs and, if it returned, runs again with the same    *)
(* diff.                                                                    *)

\* update_from of the container under check
container_update_from(kind, layout, d) ==
    IF kind = "list"
    THEN LET r == ListContainer_update_from(ListPanels, layout, d, elem, <<0>>)
         IN [layout |-> r.layout, error |-> r.error]
    ELSE SingleContainer_update_from(ListPanels, layout, d, elem, <<0>>)

InitReapply ==
    /\ ra_kind \in {"list", "single"}
    /\ container_layout \in {l \in Layouts : ra_kind = "single" => Len(l) <= 1}
    /\ idx_to_id \in Diffs
    /\ lc_before = container_layout
    /\ lc_pc = "idle"
    /\ lc_error = "none"
    /\ lc_made = <<>>
    /\ lc_inserts = <<>>
    /\ ra_pc = "ready"
    /\ ra_first = <<>>
    /\ StoreIdle
    /\ UpdateIdle
    /\ PathsIdle
    /\ EditIdle
    /\ InventIdle
    /\ LoopIdle
    /\ StoreOpsIdle
    /\ SingleIdle
    /\ SlotIdle
    /\ RegistryIdle
    /\ FillIdle

update_from_first ==
    /\ ra_pc = "ready"
    /\ LET r == container_update_from(ra_kind, container_layout, idx_to_id)
       IN /\ container_layout' = r.layout
          /\ lc_error' = r.error
          /\ ra_first' = r.layout
          /\ ra_pc' = IF r.error = "none" THEN "applied" ELSE "raised"
    /\ UNCHANGED <<ra_kind, idx_to_id, lc_before, lc_pc, lc_made, lc_inserts,
                   db_vars, up_vars, fs_vars, ed_vars, iv_vars, wl_vars, so_vars, sa_vars, gs_vars, wr_vars, fl_vars>>

update_from_second ==
    /\ ra_pc = "applied"
    /\ LET r == container_update_from(ra_kind, container_layout, idx_to_id)
       IN /\ container_layout' = r.layout
          /\ lc_error' = r.error
    /\ ra_pc' = "reapplied"
    /\ UNCHANGED <<ra_kind, ra_first, idx_to_id, lc_before, lc_pc, lc_made, lc_inserts,
                   db_vars, up_vars, fs_vars, ed_vars, iv_vars, wl_vars, so_vars, sa_vars, gs_vars, wr_vars, fl_vars>>

NextReapply == update_from_first \/ update_from_second

SpecReapply == InitReapply /\ [][NextReapply]_vars

-----------------------------------------------------------------------------
(* Specification of the list reconciler, iteration by iteration: a live     *)
(* list and a diff are drawn; the first loop and the removals are one step, *)
(* each iteration of the while loop is one step.                            *)

\* diffs for the loop: keys before the first index included
LoopDiffKeys == {<<elem, i>> : i \in (0 - 1)..MaxLoopKey}

LoopDiffs ==
    UNION {[K -> AllIds \cup {None}] : K \in {S \in SUBSET LoopDiffKeys : Cardinality(S) <= MaxLoopDiff}}

InitLoop ==
    /\ container_layout \in {l \in Layouts : Len(l) <= MaxLoopLen}
    /\ idx_to_id \in LoopDiffs
    /\ lc_before = container_layout
    /\ lc_pc = "idle"
    /\ lc_error = "none"
    /\ lc_made = <<>>
    /\ lc_inserts = <<>>
    /\ wl_st = unset_st
    /\ wl_ctx = unset_ctx
    /\ wl_pc = "enter"
    /\ StoreIdle
    /\ UpdateIdle
    /\ PathsIdle
    /\ EditIdle
    /\ InventIdle
    /\ ReapplyIdle
    /\ StoreOpsIdle
    /\ SingleIdle
    /\ SlotIdle
    /\ RegistryIdle
    /\ FillIdle

\* lines 172-198: the first loop, the removals, insert_idx and unaddressed
update_from_enter ==
    /\ wl_pc = "enter"
    /\ LET pivot == insert_idx_of(container_layout, idx_to_id, elem)
           removed == removed_order_of(container_layout, pivot)
           kept == IF pivot < 0 THEN container_layout ELSE SubSeq(container_layout, 1, pivot)
           insert_idx == IF pivot < 0 THEN Len(kept) ELSE pivot
       IN /\ container_layout' = kept
          /\ wl_ctx' = [insert_idx |-> insert_idx, removed_order |-> removed]
          /\ wl_st' = [layout |-> kept,
                       unaddressed |-> {k \in DOMAIN idx_to_id : k[1] = elem},
                       existing |-> existing_widgets_of(removed),
                       new_idx |-> insert_idx,
                       made |-> <<>>,
                       inserts |-> <<>>,
                       error |-> "none"]
    /\ wl_pc' = "loop"
    /\ UNCHANGED <<idx_to_id, lc_before, lc_pc, lc_error, lc_made, lc_inserts,
                   db_vars, up_vars, fs_vars, ed_vars, iv_vars, ra_vars, so_vars, sa_vars, gs_vars, wr_vars, fl_vars>>

\* lines 200-227: the test of the while loop and one iteration
while_unaddressed ==
    /\ wl_pc = "loop"
    /\ IF Cardinality(wl_st.unaddressed) > 0
       THEN LET st == loop_body(ListPanels, wl_st, idx_to_id, elem,
                                wl_ctx.insert_idx, wl_ctx.removed_order, <<0>>)
            IN /\ wl_st' = st
               /\ container_layout' = st.layout
               /\ lc_made' = st.made
               /\ lc_inserts' = st.inserts
               /\ lc_error' = st.error
               /\ wl_pc' = IF st.error # "none" THEN "raised" ELSE "loop"
       ELSE /\ wl_pc' = "returned"
            /\ UNCHANGED <<wl_st, container_layout, lc_made, lc_inserts, lc_error>>
    /\ UNCHANGED <<wl_ctx, idx_to_id, lc_before, lc_pc,
                   db_vars, up_vars, fs_vars, ed_vars, iv_vars, ra_vars, so_vars, sa_vars, gs_vars, wr_vars, fl_vars>>

NextLoop == update_from_enter \/ while_unaddressed

SpecLoop == InitLoop /\ [][NextLoop]_vars /\ WF_vars(NextLoop)

-----------------------------------------------------------------------------
(* Specification of the path query: a slot table, a starting point and a    *)
(* target are drawn, find_subpanel runs once.  The tables drawn include the *)
(* ones with a cycle: can_accept (slot_containers.py:30-38) lets a shelf be *)
(* dropped into its own list, and update_panel writes that row.             *)

PathPanels == [r |-> "vshelf", s |-> "footnote", t |-> "task"]

\* the slots a shelf r and a footnote s have
PathSlotKeys == {<<"r", elem, i>> : i \in 0..MaxSlotNum} \cup {<<"s", body, 0>>}

PathStores ==
    UNION {{[Panels |-> PathPanels, Slots |-> f, Rows |-> <<>>] : f \in [K -> DOMAIN PathPanels]} :
              K \in SUBSET PathSlotKeys}

InitPaths ==
    /\ db \in PathStores
    /\ disk = db
    /\ db_before = db
    /\ fs_root \in DOMAIN PathPanels
    /\ fs_target \in DOMAIN PathPanels
    /\ fs_pc = "ready"
    /\ fs_paths = {}
    /\ ListIdle
    /\ UpdateIdle
    /\ EditIdle
    /\ InventIdle
    /\ ReapplyIdle
    /\ LoopIdle
    /\ StoreOpsIdle
    /\ SingleIdle
    /\ SlotIdle
    /\ RegistryIdle
    /\ FillIdle

find_subpanel_call ==
    /\ fs_pc = "ready"
    /\ LET q == find_subpanel(db, fs_root, fs_target)
       IN /\ fs_pc' = IF q.diverged THEN "hung" ELSE "returned"
          /\ fs_paths' = q.paths
    /\ UNCHANGED <<fs_root, fs_target, lc_vars, db_vars, up_vars, ed_vars, iv_vars, ra_vars, wl_vars, so_vars, sa_vars, gs_vars, wr_vars, fl_vars>>

NextPaths == find_subpanel_call

SpecPaths == InitPaths /\ [][NextPaths]_vars

-----------------------------------------------------------------------------
(* Specification of update_panel: a store, the windows that show it and one *)
(* submitted diff are drawn; update_panel runs once, write and fan-out.     *)

UpdatePanels == [s |-> "vshelf", t |-> "task", u |-> "task"]

\* the stores: the list of shelf s holds tasks, task t is checked or not
UpdateStores ==
    {[Panels |-> UpdatePanels,
      Slots |-> [k \in {<<"s", elem, i - 1>> : i \in DOMAIN l} |-> l[k[3] + 1]],
      Rows |-> [task |-> [t |-> [checked |-> c], u |-> [checked |-> 0]]]] :
        l \in UNION {[1..n -> {"t", "u"}] : n \in 0..(MaxSlotNum + 1)}, c \in {0, 1}}

\* the widget a window shows for a panel of the store
RECURSIVE live_widget(_, _, _)
live_widget(d, panelid, inst) ==
    LET type == d.Panels[panelid]
        n == Cardinality({k \in DOMAIN d.Slots : k[1] = panelid /\ k[2] = elem})
    IN [inst |-> inst, name |-> panelid, type |-> type,
        layout |-> IF type = "vshelf"
                   THEN [i \in 1..n |-> live_widget(d, d.Slots[<<panelid, elem, i - 1>>], Append(inst, i))]
                   ELSE <<>>,
        text |-> IF type = "task" THEN (IF d.Rows[type][panelid]["checked"] # 0 THEN "v" ELSE "") ELSE ""]

\* create_window, lines 146-150: the registry after the roots were opened in turn
RECURSIVE open_windows(_, _, _)
open_windows(d, roots, n) ==
    IF n = 0 THEN <<>>
    ELSE LET reg == open_windows(d, roots, n - 1)
             widget == live_widget(d, roots[n], <<n>>)
         IN IF \E i \in DOMAIN reg : reg[i].root = widget.name
            THEN [i \in DOMAIN reg |-> IF reg[i].root = widget.name
                                       THEN [reg[i] EXCEPT !.wins = @ \cup {widget}]
                                       ELSE reg[i]]
            ELSE Append(reg, [root |-> widget.name, wins |-> {widget}])

\* the windows open when the diff is submitted, in the order they were opened
Openings == {<<>>, <<"s">>, <<"t">>, <<"s", "s">>, <<"t", "s">>, <<"s", "t", "s">>}

\* attribute dicts: a column of the task table and a name that is no column
AttrDicts == DictsOver({"checked", "bogus"}, {0, 1}, MaxAttrKeys)

SlotDicts == DictsOver({<<elem, i>> : i \in 0..MaxSlotNum}, {"s", "t", "u", None}, MaxSlotNum + 1)

\* pass_to_db(attributes=...), pass_to_db(slots=...) and update_panel with both
Submitted ==
    \/ up_attrs \in AttrDicts /\ up_slots = None
    \/ up_attrs = None /\ up_slots \in SlotDicts
    \/ up_attrs \in {x \in AttrDicts : Len(x) <= 1} /\ up_slots \in {x \in SlotDicts : Len(x) <= 1}

InitUpdate ==
    /\ db \in UpdateStores
    /\ disk = db
    /\ db_before = db
    /\ \E o \in Openings : windows = open_windows(db, o, Len(o))
    /\ \E n \in {"s", "t"} : up_panel = [name |-> n, type |-> UpdatePanels[n]]
    /\ Submitted
    /\ up_pc = "ready"
    /\ up_error = "none"
    /\ up_written = FALSE
    /\ up_calls = <<>>
    /\ ListIdle
    /\ PathsIdle
    /\ EditIdle
    /\ InventIdle
    /\ ReapplyIdle
    /\ LoopIdle
    /\ StoreOpsIdle
    /\ SingleIdle
    /\ SlotIdle
    /\ RegistryIdle
    /\ FillIdle

\* C11 mutant: an update_panel that notifies the windows before it looks at
\* the outcome of the write
update_panel_dispatch_first ==
    /\ up_pc = "ready"
    /\ LET w == store_write(db, disk, up_panel, up_attrs, up_slots)
       IN /\ db' = w.db
          /\ disk' = w.disk
          /\ \E plan \in fan_out_plans(w.db, windows, 1, up_panel.name) :
                LET f == deliver(w.db.Panels, [windows |-> windows, calls |-> <<>>, error |-> "none"],
                                 plan.deliveries, up_attrs, up_slots)
                IN /\ up_written' = (w.error = "none")
                   /\ windows' = f.windows
                   /\ up_calls' = f.calls
                   /\ up_error' = IF w.error # "none" THEN w.error ELSE f.error
                   /\ up_pc' = IF w.error # "none" \/ f.error # "none" THEN "raised"
                               ELSE IF plan.hangs THEN "hung"
                               ELSE "returned"
    /\ UNCHANGED <<up_panel, up_attrs, up_slots, db_before, lc_vars, fs_vars, ed_vars, iv_vars, ra_vars, wl_vars, so_vars, sa_vars, gs_vars, wr_vars, fl_vars>>

update_panel ==
    /\ up_pc = "ready"
    /\ \E o \in update_panel_outcomes(db, disk, windows, up_panel, up_attrs, up_slots) :
          /\ db' = o.db
          /\ disk' = o.disk
          /\ up_written' = o.written
          /\ windows' = o.windows
          /\ up_calls' = o.calls
          /\ up_error' = o.error
          /\ up_pc' = o.pc
    /\ UNCHANGED <<up_panel, up_attrs, up_slots, db_before, lc_vars, fs_vars, ed_vars, iv_vars, ra_vars, wl_vars, so_vars, sa_vars, gs_vars, wr_vars, fl_vars>>

NextUpdate == update_panel

SpecUpdate == InitUpdate /\ [][NextUpdate]_vars

-----------------------------------------------------------------------------
(* Specification of the user at the open windows: a store and the windows   *)
(* that show it are drawn; the event loop then runs the handlers of user    *)
(* edits, one at a time, each to its end.  An exception of a handler is     *)
(* reported and the event loop goes on; a handler that hangs ends it.       *)

MaxEdits == 2    \* most handlers run in a row

\* the texts a drag can carry: the ids of the panels and a text that names none
DragTexts == {"s", "t", "u", "x"}

\* a widget and the widgets below it
RECURSIVE widgets_in(_)
widgets_in(w) == {w} \cup UNION {widgets_in(w.layout[i]) : i \in DOMAIN w.layout}

\* the live widgets of all windows
live_widgets == UNION {UNION {widgets_in(w) : w \in windows[i].wins} : i \in DOMAIN windows}

\* ListContainer.request_addition: the new id at idx, every later widget one
\* index further
addition_updates(layout, panelid, idx) ==
    <<<<<<elem, idx>>, panelid>>>> \o
        [j \in 1..(Len(layout) - idx) |-> <<<<elem, idx + j>>, layout[idx + j].name>>]

\* ListContainer.request_removal of the widget at index k: every later
\* widget one index earlier, the last index deleted
removal_updates(layout, k) ==
    [j \in 1..(Len(layout) - 1 - k) |-> <<<<elem, k + j - 1>>, layout[k + j + 1].name>>]
        \o <<<<<<elem, Len(layout) - 1>>, None>>>>

\* pass_to_db(attributes, slots) of a live widget: update_panel, whole
pass_to_db(handler, w, attribute_dict, slots_dict) ==
    /\ \E o \in update_panel_outcomes(db, disk, windows, [name |-> w.name, type |-> w.type],
                                       attribute_dict, slots_dict) :
          /\ db' = o.db
          /\ disk' = o.disk
          /\ up_written' = o.written
          /\ windows' = o.windows
          /\ up_calls' = o.calls
          /\ up_error' = o.error
          /\ up_pc' = o.pc
          /\ ed_pc' = IF o.pc = "hung" THEN "hung" ELSE "open"
    /\ db_before' = db
    /\ up_panel' = [name |-> w.name, type |-> w.type]
    /\ up_attrs' = attribute_dict
    /\ up_slots' = slots_dict
    /\ ed_count' = ed_count + 1
    /\ ed_last' = handler
    /\ UNCHANGED <<lc_vars, fs_vars, iv_vars, ra_vars, wl_vars, so_vars, sa_vars, gs_vars, wr_vars, fl_vars>>

InitEdit ==
    /\ db \in UpdateStores
    /\ disk = db
    /\ db_before = db
    /\ \E o \in Openings : windows = open_windows(db, o, Len(o))
    /\ up_panel = None
    /\ up_attrs = None
    /\ up_slots = None
    /\ up_pc = "idle"
    /\ up_error = "none"
    /\ up_written = FALSE
    /\ up_calls = <<>>
    /\ ed_pc = "open"
    /\ ed_count = 0
    /\ ed_last = "none"
    /\ ListIdle
    /\ PathsIdle
    /\ InventIdle
    /\ ReapplyIdle
    /\ LoopIdle
    /\ StoreOpsIdle
    /\ SingleIdle
    /\ SlotIdle
    /\ RegistryIdle
    /\ FillIdle

\* ListContainer.dropEvent: the text of the drag is accepted (can_accept of a
\* shelf's list: drops, no allowed_types) and added at the index of the drop
dropEvent ==
    /\ ed_pc = "open"
    /\ ed_count < MaxEdits
    /\ \E w \in {v \in live_widgets : v.type = "vshelf"} :
          /\ Len(w.layout) <= MaxSlotNum
          /\ \E panelid \in DragTexts, idx \in 0..Len(w.layout) :
                pass_to_db("dropEvent", w, None, addition_updates(w.layout, panelid, idx))

\* ListContainer.request_removal(w), on the request_remove of a widget of the list
request_removal ==
    /\ ed_pc = "open"
    /\ ed_count < MaxEdits
    /\ \E w \in {v \in live_widgets : v.type = "vshelf"} :
          \E k \in 0..(Len(w.layout) - 1) :
              pass_to_db("request_removal", w, None, removal_updates(w.layout, k))

\* PTask: checkbox.pressed, pass_to_db(attributes={"checked": not self.checkbox.text()})
checkbox_pressed ==
    /\ ed_pc = "open"
    /\ ed_count < MaxEdits
    /\ \E w \in {v \in live_widgets : v.type = "task"} :
          pass_to_db("checkbox_pressed", w, <<<<"checked", IF w.text = "" THEN 1 ELSE 0>>>>, None)

\* create_window((panelid,)): the widget is made, then registered
create_window ==
    /\ ed_pc = "open"
    /\ ed_count < MaxEdits
    /\ \E panelid \in DOMAIN db.Panels :
          LET r == make_panel_widget(db.Panels, panelid, <<Len(windows) + ed_count + 1>>)
          IN windows' = IF r.raised THEN windows
                        ELSE IF \E i \in DOMAIN windows : windows[i].root = panelid
                        THEN [i \in DOMAIN windows |->
                                 IF windows[i].root = panelid
                                 THEN [windows[i] EXCEPT !.wins = @ \cup {r.widget}]
                                 ELSE windows[i]]
                        ELSE Append(windows, [root |-> panelid, wins |-> {r.widget}])
    /\ ed_count' = ed_count + 1
    /\ ed_last' = "create_window"
    /\ UNCHANGED <<db_vars, up_panel, up_attrs, up_slots, up_pc, up_error, up_written, up_calls,
                   ed_pc, lc_vars, fs_vars, iv_vars, ra_vars, wl_vars, so_vars, sa_vars, gs_vars, wr_vars, fl_vars>>

NextEdit ==
    \/ dropEvent
    \/ request_removal
    \/ checkbox_pressed
    \/ create_window

SpecEdit == InitEdit /\ [][NextEdit]_vars

-----------------------------------------------------------------------------
(* Specification of removals from a longer list: the list of shelf s holds  *)
(* up to MaxLen tasks, the windows agree with the store, and the user       *)
(* closes entries of the list.                                              *)

RemovalStores ==
    {[Panels |-> UpdatePanels,
      Slots |-> [k \in {<<"s", elem, i - 1>> : i \in DOMAIN l} |-> l[k[3] + 1]],
      Rows |-> [task |-> [t |-> [checked |-> c], u |-> [checked |-> 0]]]] :
        l \in UNION {[1..n -> {"t", "u"}] : n \in 0..MaxLen}, c \in {0, 1}}

InitRemoval ==
    /\ db \in RemovalStores
    /\ disk = db
    /\ db_before = db
    /\ \E o \in Openings : windows = open_windows(db, o, Len(o))
    /\ up_panel = None
    /\ up_attrs = None
    /\ up_slots = None
    /\ up_pc = "idle"
    /\ up_error = "none"
    /\ up_written = FALSE
    /\ up_calls = <<>>
    /\ ed_pc = "open"
    /\ ed_count = 0
    /\ ed_last = "none"
    /\ ListIdle
    /\ PathsIdle
    /\ InventIdle
    /\ ReapplyIdle
    /\ LoopIdle
    /\ StoreOpsIdle
    /\ SingleIdle
    /\ SlotIdle
    /\ RegistryIdle
    /\ FillIdle

NextRemoval == request_removal

SpecRemoval == InitRemoval /\ [][NextRemoval]_vars

-----------------------------------------------------------------------------
(* Specification of panel creation: a store and the arguments are drawn,    *)
(* invent_panel runs once.                                                  *)

\* the stores: some types initialized, panel "p" absent or a panel of one of them
InventStores ==
    {[Panels |-> [i \in T \cup P |-> IF i \in T THEN "type" ELSE pt],
      Slots |-> <<>>,
      Rows |-> [t \in {x \in T : attributes(x) # {}} |->
                   [r \in {x \in P : pt = t} |-> [c \in attributes(t) |-> v]]]] :
        T \in SUBSET {"task", "vshelf"}, P \in SUBSET {"p"}, pt \in {"task", "vshelf"}, v \in {0, 1}}

InitInvent ==
    /\ db \in {d \in InventStores : \A i \in DOMAIN d.Panels : d.Panels[i] = "type" \/ d.Panels[i] \in DOMAIN d.Panels}
    /\ disk = db
    /\ db_before = db
    /\ iv_id \in {"", "p", "q", "task"}
    /\ iv_type \in {"task", "vshelf", "type", "nosuch"}
    /\ iv_pc = "ready"
    /\ iv_error = "none"
    /\ iv_commits = <<>>
    /\ ListIdle
    /\ UpdateIdle
    /\ PathsIdle
    /\ EditIdle
    /\ ReapplyIdle
    /\ LoopIdle
    /\ StoreOpsIdle
    /\ SingleIdle
    /\ SlotIdle
    /\ RegistryIdle
    /\ FillIdle

invent_panel_call ==
    /\ iv_pc = "ready"
    /\ LET r == invent_panel(db, disk, iv_id, iv_type)
       IN /\ db' = r.db
          /\ disk' = r.disk
          /\ iv_commits' = r.commits
          /\ iv_error' = r.error
          /\ iv_pc' = IF r.error # "none" THEN "raised" ELSE "returned"
    /\ UNCHANGED <<db_before, iv_id, iv_type, lc_vars, up_vars, fs_vars, ed_vars, ra_vars, wl_vars, so_vars, sa_vars, gs_vars, wr_vars, fl_vars>>

NextInvent == invent_panel_call

SpecInvent == InitInvent /\ [][NextInvent]_vars

-----------------------------------------------------------------------------
(* Specification of the store under a sequence of calls: from the store of  *)
(* a new file, invent_panel, try_init_type_in_db and update_panel are       *)
(* called in any order; no window is open.                                  *)

MaxOps == 3

\* the ids and the types the calls are made with; one id is the name of a type
StoreIds == {"p", "task"}
StoreTypes == {"task", "vshelf"}

\* history: the module each id of the given stores had when it first appeared
RECURSIVE born_after(_, _)
born_after(born, stores) ==
    IF stores = <<>> THEN born
    ELSE born_after([i \in (DOMAIN born) \cup (DOMAIN stores[1].Panels) |->
                        IF i \in DOMAIN born THEN born[i] ELSE stores[1].Panels[i]],
                    Tail(stores))

InitStore ==
    /\ db = open_db
    /\ disk = open_db
    /\ db_before = open_db
    /\ so_pc = "open"
    /\ so_count = 0
    /\ so_last = no_call
    /\ so_error = "none"
    /\ so_born = <<>>
    /\ so_called = {}
    /\ so_log = <<>>
    /\ SingleIdle
    /\ SlotIdle
    /\ RegistryIdle
    /\ FillIdle
    /\ ListIdle
    /\ UpdateIdle
    /\ PathsIdle
    /\ EditIdle
    /\ InventIdle
    /\ ReapplyIdle
    /\ LoopIdle

\* the effect of a call that left the state r = [db, disk, commits, error]
store_call(r, op, id, type, calls_try_init) ==
    /\ db' = r.db
    /\ disk' = r.disk
    /\ db_before' = db
    /\ so_log' = r.commits
    /\ so_error' = r.error
    /\ so_last' = [op |-> op, id |-> id, type |-> type,
                   first |-> calls_try_init /\ type \notin so_called]
    /\ so_called' = IF calls_try_init THEN so_called \cup {type} ELSE so_called
    /\ so_born' = born_after(so_born, r.commits \o <<r.db>>)
    /\ so_count' = so_count + 1
    /\ UNCHANGED <<so_pc, lc_vars, up_vars, fs_vars, ed_vars, iv_vars, ra_vars, wl_vars, sa_vars, gs_vars, wr_vars, fl_vars>>

\* invent_panel(panelid, panel_type)
invent_panel_op ==
    /\ so_pc = "open"
    /\ so_count < MaxOps
    /\ \E panelid \in StoreIds, panel_type \in StoreTypes :
          store_call(invent_panel(db, disk, panelid, panel_type), "invent_panel", panelid, panel_type,
                     panelid # "" /\ panel_type \in PanelTypes /\ allow_user_creation(panel_type))

\* try_init_type_in_db(panel_type)
try_init_op ==
    /\ so_pc = "open"
    /\ so_count < MaxOps
    /\ \E panel_type \in StoreTypes :
          store_call(try_init_type_in_db([db |-> db, disk |-> disk, commits |-> <<>>, error |-> "none"],
                                         panel_type),
                     "try_init_type_in_db", None, panel_type, TRUE)

\* update_panel(panel_widget, attribute_dict, slots_dict) by the widget of a
\* panel, as pass_to_db calls it: one of the two dicts is None
update_panel_with(panelid, given_attrs, given_slots) ==
    \E o \in update_panel_outcomes(db, disk, <<>>,
                                  [name |-> panelid, type |-> db.Panels[panelid]],
                                  given_attrs, given_slots) :
        store_call([db |-> o.db, disk |-> o.disk, commits |-> <<o.disk>>, error |-> o.error],
                   "update_panel", panelid, db.Panels[panelid], FALSE)

update_panel_op ==
    /\ so_pc = "open"
    /\ so_count < MaxOps
    /\ \E panelid \in DOMAIN db.Panels :
          \/ update_panel_with(panelid, <<<<"checked", 1>>>>, None)
          \/ \E c \in StoreIds \cup {None} :
                update_panel_with(panelid, None, <<<<<<elem, 0>>, c>>>>)

NextStore == invent_panel_op \/ try_init_op \/ update_panel_op

SpecStore == InitStore /\ [][NextStore]_vars

-----------------------------------------------------------------------------
(* Specification of the launch: MaxProcs instances are started on one       *)
(* server id, each running main.py; the steps of different processes        *)
(* interleave at the system calls on the server name (connect, listen,      *)
(* write, read).                                                            *)

\* the process whose QLocalServer listens on the name
listener == CHOOSE q \in Procs : sa_listening[q]

InitSingle ==
    /\ sa_pc = [p \in Procs |-> "init"]
    /\ SingleRest
    /\ SlotIdle
    /\ RegistryIdle
    /\ FillIdle
    /\ StoreIdle
    /\ StoreOpsIdle
    /\ ListIdle
    /\ UpdateIdle
    /\ PathsIdle
    /\ EditIdle
    /\ InventIdle
    /\ ReapplyIdle
    /\ LoopIdle

\* try_connect(pass_args): connectToServer(sid) finds a listening server, no
\* server under the name, or a name nobody listens on any more
try_connect(p) ==
    /\ sa_pc[p] = "init"
    /\ IF sa_socket = "listening"
       THEN /\ sa_pc' = [sa_pc EXCEPT ![p] = "found"]
            /\ sa_peer' = [sa_peer EXCEPT ![p] = listener]
            /\ sa_pending' = Append(sa_pending, p)
            /\ UNCHANGED sa_err
       ELSE /\ sa_pc' = [sa_pc EXCEPT ![p] = "not_found"]
            /\ sa_err' = [sa_err EXCEPT ![p] = IF sa_socket = "absent" THEN "ServerNotFoundError"
                                                                        ELSE "ConnectionRefusedError"]
            /\ UNCHANGED <<sa_peer, sa_pending>>
    /\ UNCHANGED <<sa_running, sa_listening, sa_socket, sa_in_socket, sa_accepted, sa_readyRead,
                   sa_buffer, sa_received,
                   sa_inited, sa_created,
                   lc_vars, db_vars, up_vars, fs_vars, ed_vars, iv_vars, ra_vars, wl_vars, so_vars, gs_vars, wr_vars, fl_vars>>

\* found(): the arguments are written to the connection, running = -1, and
\* main.py exits; the bytes reach the server if it still listens
found(p) ==
    /\ sa_pc[p] = "found"
    /\ IF sa_listening[sa_peer[p]]
       THEN /\ sa_buffer' = sa_buffer \cup {p}
            /\ sa_readyRead' = sa_readyRead \cup {p}
       ELSE UNCHANGED <<sa_buffer, sa_readyRead>>
    /\ sa_running' = [sa_running EXCEPT ![p] = 0 - 1]
    /\ sa_pc' = [sa_pc EXCEPT ![p] = "exited"]
    /\ UNCHANGED <<sa_err, sa_peer, sa_listening, sa_socket, sa_pending, sa_in_socket, sa_accepted,
                   sa_received,
                   sa_inited, sa_created,
                   lc_vars, db_vars, up_vars, fs_vars, ed_vars, iv_vars, ra_vars, wl_vars, so_vars, gs_vars, wr_vars, fl_vars>>

\* C38 mutant: a not_found that emits args_received before picked, so that
\* create_window begins while db_con and windows are None
not_found_args_first(p) ==
    /\ sa_pc[p] = "not_found"
    /\ IF sa_err[p] = "ServerNotFoundError"
       THEN /\ IF sa_socket = "absent"
               THEN /\ sa_socket' = "listening"
                    /\ sa_listening' = [sa_listening EXCEPT ![p] = TRUE]
               ELSE UNCHANGED <<sa_socket, sa_listening>>
            /\ sa_running' = [sa_running EXCEPT ![p] = 1]
            /\ sa_received' = Append(sa_received, [at |-> p, args |-> p])
            /\ sa_created' = Append(sa_created, [at |-> p, inited |-> sa_inited[p]])
            /\ sa_inited' = [sa_inited EXCEPT ![p] = TRUE]
            /\ sa_pc' = [sa_pc EXCEPT ![p] = "serving"]
       ELSE /\ sa_pc' = [sa_pc EXCEPT ![p] = "exited"]
            /\ UNCHANGED <<sa_socket, sa_listening, sa_running, sa_received, sa_inited, sa_created>>
    /\ UNCHANGED <<sa_err, sa_peer, sa_pending, sa_in_socket, sa_accepted, sa_readyRead, sa_buffer,
                   lc_vars, db_vars, up_vars, fs_vars, ed_vars, iv_vars, ra_vars, wl_vars, so_vars, gs_vars, wr_vars, fl_vars>>

\* not_found(err): on ServerNotFoundError the process creates a QLocalServer,
\* calls listen(sid) without looking at its result (it succeeds only while the
\* name is free), sets running = 1, emits picked, whose slot init_manager
\* runs to its end inside the emit, then emits args_received with its own
\* arguments, whose slot is create_window, and main.py enters exec(); on any
\* other error it prints the error, running stays 0 and main.py exits
not_found(p) ==
    /\ sa_pc[p] = "not_found"
    /\ IF sa_err[p] = "ServerNotFoundError"
       THEN /\ IF sa_socket = "absent"
               THEN /\ sa_socket' = "listening"
                    /\ sa_listening' = [sa_listening EXCEPT ![p] = TRUE]
               ELSE UNCHANGED <<sa_socket, sa_listening>>
            /\ sa_running' = [sa_running EXCEPT ![p] = 1]
            /\ sa_inited' = [sa_inited EXCEPT ![p] = TRUE]
            /\ sa_received' = Append(sa_received, [at |-> p, args |-> p])
            /\ sa_created' = Append(sa_created, [at |-> p, inited |-> TRUE])
            /\ sa_pc' = [sa_pc EXCEPT ![p] = "serving"]
       ELSE /\ sa_pc' = [sa_pc EXCEPT ![p] = "exited"]
            /\ UNCHANGED <<sa_socket, sa_listening, sa_running, sa_received, sa_inited, sa_created>>
    /\ UNCHANGED <<sa_err, sa_peer, sa_pending, sa_in_socket, sa_accepted, sa_readyRead, sa_buffer,
                   lc_vars, db_vars, up_vars, fs_vars, ed_vars, iv_vars, ra_vars, wl_vars, so_vars, gs_vars, wr_vars, fl_vars>>

\* receive_connection(): the oldest queued connection becomes self.in_socket
\* and its readyRead is connected to receive_message
receive_connection(p) ==
    /\ sa_pc[p] = "serving"
    /\ sa_listening[p]
    /\ sa_pending # <<>>
    /\ sa_in_socket' = [sa_in_socket EXCEPT ![p] = Head(sa_pending)]
    /\ sa_accepted' = sa_accepted \cup {Head(sa_pending)}
    /\ sa_pending' = Tail(sa_pending)
    /\ UNCHANGED <<sa_pc, sa_running, sa_err, sa_peer, sa_listening, sa_socket, sa_readyRead, sa_buffer,
                   sa_received,
                   sa_inited, sa_created,
                   lc_vars, db_vars, up_vars, fs_vars, ed_vars, iv_vars, ra_vars, wl_vars, so_vars, gs_vars, wr_vars, fl_vars>>

\* receive_message(), called for the readyRead of a connected socket c: it
\* reads all of self.in_socket, whichever socket signalled, disconnects
\* self.in_socket.readyRead and emits what it read; the disconnect of a signal
\* that is not connected fails, with or without an exception
receive_message(p) ==
    /\ sa_pc[p] = "serving"
    /\ sa_listening[p]
    /\ \E c \in sa_readyRead \cap sa_accepted :
          /\ sa_readyRead' = sa_readyRead \ {c}
          /\ sa_buffer' = sa_buffer \ {sa_in_socket[p]}
          /\ sa_accepted' = sa_accepted \ {sa_in_socket[p]}
          /\ \E raised \in {FALSE, sa_in_socket[p] \notin sa_accepted} :
                /\ sa_received' = IF raised THEN sa_received
                                  ELSE Append(sa_received,
                                              [at |-> p,
                                               args |-> IF sa_in_socket[p] \in sa_buffer
                                                        THEN sa_in_socket[p] ELSE 0])
                /\ sa_created' = IF raised THEN sa_created
                                 ELSE Append(sa_created, [at |-> p, inited |-> sa_inited[p]])
    /\ UNCHANGED <<sa_pc, sa_running, sa_err, sa_peer, sa_listening, sa_socket, sa_pending, sa_in_socket,
                   sa_inited,
                   lc_vars, db_vars, up_vars, fs_vars, ed_vars, iv_vars, ra_vars, wl_vars, so_vars, gs_vars, wr_vars, fl_vars>>

\* exec() ends in a serving process (the application quits, or the process is
\* ended from outside): a listening server goes with its queued and open
\* connections, and its name is removed or left behind
exec_ends(p) ==
    /\ sa_pc[p] = "serving"
    /\ sa_pc' = [sa_pc EXCEPT ![p] = "exited"]
    /\ IF sa_listening[p]
       THEN /\ sa_listening' = [sa_listening EXCEPT ![p] = FALSE]
            /\ sa_socket' \in {"absent", "stale"}
            /\ sa_pending' = <<>>
            /\ sa_accepted' = {}
            /\ sa_readyRead' = {}
            /\ sa_buffer' = {}
       ELSE UNCHANGED <<sa_listening, sa_socket, sa_pending, sa_accepted, sa_readyRead, sa_buffer>>
    /\ UNCHANGED <<sa_running, sa_err, sa_peer, sa_in_socket, sa_received,
                   sa_inited, sa_created,
                   lc_vars, db_vars, up_vars, fs_vars, ed_vars, iv_vars, ra_vars, wl_vars, so_vars, gs_vars, wr_vars, fl_vars>>

NextSingle ==
    \E p \in Procs :
        \/ try_connect(p)
        \/ found(p)
        \/ not_found(p)
        \/ receive_connection(p)
        \/ receive_message(p)
        \/ exec_ends(p)

SpecSingle == InitSingle /\ [][NextSingle]_vars

-----------------------------------------------------------------------------
(* Specification of get_slot_widget: a container panel of one of the        *)
(* container classes with its slots filled or empty and a slot key are      *)
(* drawn; pass_down_changes takes one step through that slot.               *)

ContainerTypes == {"hshelf", "vshelf", "footnote", "matrix", "creator", "finder"}

\* the cells of a matrix the drawn panels use: the first and the last of the
\* dimy x dimx = 4 x 2 grid
MatrixCells == {"cell.0.0", "cell.3.1"}

\* the slot names a class gives to a ListContainer
list_slots(t) ==
    CASE t \in {"hshelf", "vshelf"} -> {elem}
      [] t = "finder" -> {"result"}
      [] OTHER -> {}

\* the slot names a class gives to a SingleContainer
single_slots(t) ==
    CASE t = "footnote" -> {"body"}
      [] t = "matrix" -> MatrixCells
      [] t = "creator" -> {"type_to_make", "result"}
      [] t = "finder" -> {"type_to_find"}
      [] OTHER -> {}

\* the slot keys of a class
declared_slots(t) ==
    {<<n, i>> : n \in list_slots(t), i \in 0..MaxSlotNum} \cup {<<n, 0>> : n \in single_slots(t)}

\* the contents a panel of the class can hold: every single slot empty or
\* filled, every list filled from index 0 without a gap
Holdings(t) ==
    {h \in UNION {[ks -> {"t", "u"}] : ks \in SUBSET declared_slots(t)} :
        \A k \in DOMAIN h : k[2] > 0 => <<k[1], k[2] - 1>> \in DOMAIN h}

\* ListContainer.panel_widget_at(idx): itemAt past the end returns None and
\* .widget() raises
panel_widget_at(held, slot_name, idx) ==
    IF <<slot_name, idx>> \in DOMAIN held
    THEN [error |-> "none", kind |-> "panel", at |-> <<slot_name, idx>>, name |-> held[<<slot_name, idx>>]]
    ELSE [error |-> "AttributeError", kind |-> "none", at |-> <<>>, name |-> None]

\* SingleContainer.get_panel_widget(): the widget of the container or None
container_panel_widget(held, slot_name) ==
    IF <<slot_name, 0>> \in DOMAIN held
    THEN [error |-> "none", kind |-> "panel", at |-> <<slot_name, 0>>, name |-> held[<<slot_name, 0>>]]
    ELSE [error |-> "none", kind |-> "None", at |-> <<>>, name |-> None]

\* get_slot_widget(slot) of the container classes.  PMatrix returns
\* grid.itemAtPosition(y, x).widget(), the SingleContainer of the cell.
class_get_slot_widget(w, slot) ==
    CASE w.type \in {"hshelf", "vshelf"} /\ slot[1] = elem -> panel_widget_at(w.held, elem, slot[2])
      [] w.type = "footnote" /\ slot[1] = "body" -> container_panel_widget(w.held, "body")
      [] w.type = "matrix" /\ slot[1] \in MatrixCells ->
            [error |-> "none", kind |-> "container", at |-> <<slot[1], 0>>, name |-> None]
      [] w.type = "creator" /\ slot[1] \in {"type_to_make", "result"} -> container_panel_widget(w.held, slot[1])
      [] w.type = "finder" /\ slot[1] = "type_to_find" -> container_panel_widget(w.held, "type_to_find")
      [] w.type = "finder" /\ slot[1] = "result" -> panel_widget_at(w.held, "result", slot[2])
      [] OTHER -> [error |-> "Exception", kind |-> "none", at |-> <<>>, name |-> None]

InitSlot ==
    /\ \E t \in ContainerTypes : \E h \in Holdings(t) : gs_widget = [type |-> t, held |-> h]
    /\ gs_slot \in declared_slots(gs_widget.type) \cup {<<"other", 0>>}
    /\ gs_pc = "ready"
    /\ gs_ret = no_ret
    /\ RegistryIdle
    /\ FillIdle
    /\ StoreIdle
    /\ StoreOpsIdle
    /\ SingleIdle
    /\ ListIdle
    /\ UpdateIdle
    /\ PathsIdle
    /\ EditIdle
    /\ InventIdle
    /\ ReapplyIdle
    /\ LoopIdle

\* pass_down_changes with a path that is not empty: self.get_slot_widget(next_step)
get_slot_widget_call ==
    /\ gs_pc = "ready"
    /\ gs_ret' = class_get_slot_widget(gs_widget, gs_slot)
    /\ gs_pc' = IF gs_ret'.error = "none" THEN "got" ELSE "raised"
    /\ UNCHANGED <<gs_widget, gs_slot,
                   lc_vars, db_vars, up_vars, fs_vars, ed_vars, iv_vars, ra_vars, wl_vars, so_vars, sa_vars, wr_vars, fl_vars>>

\* ... .pass_down_changes(path_to_panel[1:], attribute_dict, slots_dict) on
\* what get_slot_widget returned: a panel widget takes the call, a container
\* and None have no such method
pass_down_to_result ==
    /\ gs_pc = "got"
    /\ gs_pc' = IF gs_ret.kind = "panel" THEN "delivered" ELSE "raised"
    /\ gs_ret' = IF gs_ret.kind = "panel" THEN gs_ret ELSE [gs_ret EXCEPT !.error = "AttributeError"]
    /\ UNCHANGED <<gs_widget, gs_slot,
                   lc_vars, db_vars, up_vars, fs_vars, ed_vars, iv_vars, ra_vars, wl_vars, so_vars, sa_vars, wr_vars, fl_vars>>

NextSlot == get_slot_widget_call \/ pass_down_to_result

SpecSlot == InitSlot /\ [][NextSlot]_vars

-----------------------------------------------------------------------------
(* Specification of the window registry: windows are open on a store, and   *)
(* the event loop delivers the events of the windows: a close, the start of *)
(* a move drag, a deferred delete, and a request for a new window.          *)

MaxEvents == 3   \* most events delivered in a row

\* the window widgets of the registry
registered_windows == UNION {{w.inst : w \in windows[i].wins} : i \in DOMAIN windows}

\* window_closed(window, name): self.windows[name].remove(window), and the
\* entry is deleted when its set is empty; both raise KeyError for a window
\* that is not registered
window_closed(reg, inst, name) ==
    IF ~\E i \in DOMAIN reg : reg[i].root = name
    THEN [windows |-> reg, error |-> "KeyError"]
    ELSE LET i == CHOOSE k \in DOMAIN reg : reg[k].root = name
         IN IF ~\E w \in reg[i].wins : w.inst = inst
            THEN [windows |-> reg, error |-> "KeyError"]
            ELSE LET rest == {w \in reg[i].wins : w.inst # inst}
                 IN [windows |-> IF rest = {}
                                 THEN SubSeq(reg, 1, i - 1) \o SubSeq(reg, i + 1, Len(reg))
                                 ELSE [reg EXCEPT ![i].wins = rest],
                     error |-> "none"]

InitWindows ==
    /\ db \in UpdateStores
    /\ disk = db
    /\ db_before = db
    /\ \E o \in Openings : windows = open_windows(db, o, Len(o))
    /\ wr_opened = registered_windows
    /\ wr_closed = {}
    /\ wr_alive = registered_windows
    /\ wr_pending = {}
    /\ wr_error = "none"
    /\ up_panel = None
    /\ up_attrs = None
    /\ up_slots = None
    /\ up_pc = "idle"
    /\ up_error = "none"
    /\ up_written = FALSE
    /\ up_calls = <<>>
    /\ ed_pc = "open"
    /\ ed_count = 0
    /\ ed_last = "none"
    /\ ListIdle
    /\ PathsIdle
    /\ InventIdle
    /\ ReapplyIdle
    /\ LoopIdle
    /\ StoreOpsIdle
    /\ SingleIdle
    /\ SlotIdle
    /\ FillIdle

\* the windows on screen: registered and existing
shown_windows == UNION {{w \in windows[i].wins : w.inst \in wr_alive} : i \in DOMAIN windows}

\* what a handler of the registry leaves, besides the registry itself
registry_event(handler) ==
    /\ ed_count' = ed_count + 1
    /\ ed_last' = handler
    /\ UNCHANGED <<db_vars, up_panel, up_attrs, up_slots, up_pc, up_error, up_written, up_calls, ed_pc,
                   lc_vars, fs_vars, iv_vars, ra_vars, wl_vars, so_vars, sa_vars, gs_vars, fl_vars>>

\* the window is closed by the user: eventFilter sees QEvent.Close and emits
\* closed, which window_closed handles.  The registry held the reference that
\* kept the widget; whether the widget goes with it is up to the reference
\* cycles of its containers and the collector
close_event ==
    /\ ed_pc = "open"
    /\ ed_count < MaxEvents
    /\ \E w \in shown_windows :
          LET r == window_closed(windows, w.inst, w.name)
          IN /\ windows' = r.windows
             /\ wr_error' = r.error
             /\ wr_closed' = wr_closed \cup {w.inst}
             /\ \E collected \in BOOLEAN :
                   /\ wr_alive' = IF collected THEN wr_alive \ {w.inst} ELSE wr_alive
                   /\ wr_pending' = IF collected THEN {x \in wr_pending : x.inst # w.inst} ELSE wr_pending
    /\ UNCHANGED wr_opened
    /\ registry_event("close_event")

\* mouseMoveEvent of a window with the left button, far enough: the move
\* drag emits request_remove, for which create_window connected
\* x.deleteLater(), and starts the drag
mouseMoveEvent ==
    /\ ed_pc = "open"
    /\ ed_count < MaxEvents
    /\ \E w \in shown_windows :
          wr_pending' = wr_pending \cup {[inst |-> w.inst, name |-> w.name]}
    /\ wr_error' = "none"
    /\ UNCHANGED <<windows, wr_opened, wr_closed, wr_alive>>
    /\ registry_event("mouseMoveEvent")

\* the deferred delete of a widget that still exists is carried out:
\* eventFilter sees QEvent.DeferredDelete and emits closed, then the widget
\* is gone
deferred_delete ==
    /\ ed_pc = "open"
    /\ ed_count < MaxEvents
    /\ \E x \in wr_pending :
          LET r == window_closed(windows, x.inst, x.name)
          IN /\ windows' = r.windows
             /\ wr_error' = r.error
             /\ wr_closed' = wr_closed \cup {x.inst}
             /\ wr_alive' = wr_alive \ {x.inst}
             /\ wr_pending' = wr_pending \ {x}
    /\ UNCHANGED wr_opened
    /\ registry_event("deferred_delete")

\* create_window((panelid,)) for a new window: the registry gets the widget
\* make_panel_widget returned, nothing if it raised
create_window_event ==
    /\ ed_pc = "open"
    /\ ed_count < MaxEvents
    /\ \E panelid \in DOMAIN db.Panels :
          LET inst == <<Len(windows) + ed_count + 4>>
              r == make_panel_widget(db.Panels, panelid, inst)
          IN /\ windows' = IF r.raised THEN windows
                           ELSE IF \E i \in DOMAIN windows : windows[i].root = panelid
                           THEN [i \in DOMAIN windows |->
                                    IF windows[i].root = panelid
                                    THEN [windows[i] EXCEPT !.wins = @ \cup {r.widget}]
                                    ELSE windows[i]]
                           ELSE Append(windows, [root |-> panelid, wins |-> {r.widget}])
             /\ wr_opened' = IF r.raised THEN wr_opened ELSE wr_opened \cup {inst}
             /\ wr_alive' = IF r.raised THEN wr_alive ELSE wr_alive \cup {inst}
             /\ wr_error' = IF r.raised THEN r.error ELSE "none"
    /\ UNCHANGED <<wr_closed, wr_pending>>
    /\ registry_event("create_window")

NextWindows ==
    \/ close_event
    \/ mouseMoveEvent
    \/ deferred_delete
    \/ create_window_event

SpecWindows == InitWindows /\ [][NextWindows]_vars

-----------------------------------------------------------------------------
(* Specification of fill_slots: a panel of a class with one or several      *)
(* containers, its containers filled or empty, and a diff are drawn;        *)
(* fill_slots runs once and hands the whole diff to each container.          *)

FillTypes == {"vshelf", "footnote", "creator", "finder", "matrix"}

\* the containers of a class in the order its fill_slots calls update_from
fill_order(t) ==
    CASE t = "vshelf" -> <<elem>>
      [] t = "footnote" -> <<body>>
      [] t = "creator" -> <<"type_to_make", "result">>
      [] t = "finder" -> <<"type_to_find", "result">>
      [] t = "matrix" -> <<"cell.0.0", "cell.3.1">>

\* the Panels table the containers materialize from
FillPanels == [t |-> "task", u |-> "task"]

\* the layouts a container can hold when fill_slots is called: a
\* SingleContainer is empty or holds one widget, a ListContainer holds up to
\* MaxFill; the widget at index i of container c is instance <<c, i>>
filled(t, c) ==
    LET most == IF fill_order(t)[c] \in list_slots(t) THEN MaxFill ELSE 1
    IN UNION {{[i \in 1..n |-> [inst |-> <<c, i>>, name |-> f[i]]] : f \in [1..n -> {"t", "u"}]} :
                 n \in 0..most}

\* the diffs: up to MaxFill keys over the slot names of the class and a name
\* no container of the class carries
FillDiffs(t) ==
    LET names == {fill_order(t)[c] : c \in DOMAIN fill_order(t)} \cup {"other"}
        keys == {<<n, i>> : n \in names, i \in 0..1}
    IN UNION {[K -> {"t", None}] : K \in {S \in SUBSET keys : Cardinality(S) <= MaxFill}}

InitFill ==
    /\ \E t \in FillTypes :
          \E h \in [DOMAIN fill_order(t) -> UNION {filled(t, c) : c \in DOMAIN fill_order(t)}] :
              /\ \A c \in DOMAIN h : h[c] \in filled(t, c)
              /\ fl_widget = [type |-> t, held |-> h]
              /\ fl_before = h
              /\ fl_diff \in FillDiffs(t)
    /\ fl_pc = "ready"
    /\ fl_error = "none"
    /\ fl_log = <<>>
    /\ RegistryIdle
    /\ SlotIdle
    /\ StoreIdle
    /\ StoreOpsIdle
    /\ SingleIdle
    /\ ListIdle
    /\ UpdateIdle
    /\ PathsIdle
    /\ EditIdle
    /\ InventIdle
    /\ ReapplyIdle
    /\ LoopIdle

\* container.update_from(slots) of container c of the panel
update_container(t, c, layout, slots) ==
    LET slot_name == fill_order(t)[c]
    IN IF slot_name \in list_slots(t)
       THEN LET r == ListContainer_update_from(FillPanels, layout, slots, slot_name, <<c, 9>>)
            IN [slot |-> slot_name, before |-> layout, after |-> r.layout, made |-> r.made, error |-> r.error]
       ELSE LET r == SingleContainer_update_from(FillPanels, layout, slots, slot_name, <<c, 9>>)
            IN [slot |-> slot_name, before |-> layout, after |-> r.layout, made |-> <<>>, error |-> r.error]

\* the statements of fill_slots from container c on; an exception of one
\* update_from ends the call
RECURSIVE fill_slots_from(_, _, _, _)
fill_slots_from(t, st, c, slots) ==
    IF c > Len(fill_order(t)) \/ st.error # "none" THEN st
    ELSE LET r == update_container(t, c, st.held[c], slots)
         IN fill_slots_from(t, [held |-> [st.held EXCEPT ![c] = r.after],
                                log |-> Append(st.log, r),
                                error |-> r.error],
                            c + 1, slots)

\* fill_slots(slots) of the panel classes
fill_slots_call ==
    /\ fl_pc = "ready"
    /\ LET st == fill_slots_from(fl_widget.type, [held |-> fl_widget.held, log |-> <<>>, error |-> "none"],
                                 1, fl_diff)
       IN /\ fl_widget' = [fl_widget EXCEPT !.held = st.held]
          /\ fl_log' = st.log
          /\ fl_error' = st.error
          /\ fl_pc' = IF st.error = "none" THEN "returned" ELSE "raised"
    /\ UNCHANGED <<fl_diff, fl_before,
                   lc_vars, db_vars, up_vars, fs_vars, ed_vars, iv_vars, ra_vars, wl_vars, so_vars, sa_vars, gs_vars, wr_vars>>

NextFill == fill_slots_call

SpecFill == InitFill /\ [][NextFill]_vars

-----------------------------------------------------------------------------
(* Claims about ListContainer.update_from, under SpecList *)

\* the ids a layout holds, in order
ids_of(layout) == [i \in DOMAIN layout |-> layout[i].name]

InstsOf(l) == {l[i].inst : i \in DOMAIN l}
NamesOf(l) == {l[i].name : i \in DOMAIN l}

\* the call is over and no widget construction raised inside it
lc_placed_only == lc_pc = "done" /\ lc_error \in {"none", "IndexGap"}

\* C1: a diff with the single key k < N mapped to an id that is not in the
\* list yields a list of length N with a newly made instance of that id at k
\* and every other position holding the instance it held before.
C1_SingleReplaceKeepsOthers ==
    (/\ lc_pc = "done"
     /\ Cardinality(DOMAIN idx_to_id) = 1
     /\ \E k \in 0..(Len(lc_before) - 1) :
           /\ <<elem, k>> \in DOMAIN idx_to_id
           /\ idx_to_id[<<elem, k>>] \in AllIds \ NamesOf(lc_before))
    => \E k \in 0..(Len(lc_before) - 1) :
           /\ <<elem, k>> \in DOMAIN idx_to_id
           /\ lc_error = "none"
           /\ Len(container_layout) = Len(lc_before)
           /\ container_layout[k + 1].name = idx_to_id[<<elem, k>>]
           /\ container_layout[k + 1].inst \notin InstsOf(lc_before)
           /\ \A j \in 1..Len(lc_before) : j # k + 1 => container_layout[j] = lc_before[j]

\* C2: on a list of length N >= 2, a diff that only tombstones an index that
\* is not the last one ends with the IndexGap error.
C2_LoneTombstoneRaisesIndexGap ==
    (/\ lc_pc = "done"
     /\ Len(lc_before) >= 2
     /\ \E k \in 0..(Len(lc_before) - 2) : idx_to_id = (<<elem, k>> :> None))
    => lc_error = "IndexGap"

\* the list the diff asks for: the diff's non-tombstone entries over the
\* entries of the list it has no key for
lc_target ==
    [k \in {k \in DOMAIN idx_to_id : k[1] = elem /\ idx_to_id[k] # None}
           \cup {<<elem, i>> : i \in {i \in 0..(Len(lc_before) - 1) : <<elem, i>> \notin DOMAIN idx_to_id}}
      |-> IF k \in DOMAIN idx_to_id THEN idx_to_id[k] ELSE lc_before[k[2] + 1].name]

\* C3: an id held by the list before and after the call is served by an
\* instance that was in the list before: every position that holds such an id
\* holds an old instance, and make_from_db is called for an id the list
\* already held at most once per copy of the id that the diff adds.
C3_PresentIdsNeverMaterialized ==
    lc_pc = "done" =>
        /\ \A i \in DOMAIN container_layout :
              container_layout[i].name \in NamesOf(lc_before)
                  => container_layout[i].inst \in InstsOf(lc_before)
        /\ \A n \in NamesOf(lc_before) :
              LET held == Cardinality({i \in DOMAIN lc_before : lc_before[i].name = n})
                  asked == Cardinality({k \in DOMAIN lc_target : lc_target[k] = n})
                  calls == Cardinality({i \in DOMAIN lc_made : lc_made[i] = n})
              IN calls <= (IF asked > held THEN asked - held ELSE 0)

\* C4: update_from ends with the IndexGap error or with every insert made
\* at an index not greater than the length the list had at that insert.
C4_ContiguousOrIndexGap ==
    lc_placed_only =>
        \/ lc_error = "IndexGap"
        \/ \A i \in DOMAIN lc_inserts : lc_inserts[i].idx <= lc_inserts[i].count

\* C5: no instance is placed twice by one update_from call: a detached
\* instance that a diff entry repositioned is not placed again at an index
\* the diff has no entry for.
C5_NoInstancePlacedTwice ==
    lc_placed_only =>
        \A i, j \in DOMAIN lc_inserts : i # j => lc_inserts[i].inst # lc_inserts[j].inst

\* the indices the diff has a key for
lc_keys == {k[2] : k \in {k \in DOMAIN idx_to_id : k[1] = elem}}

\* an index past the end of the list as entered (past every detached
\* instance), without an entry in the diff and below a key of the diff
lc_gap == {j \in Len(lc_before)..MaxKey : j \notin lc_keys /\ \E k \in lc_keys : k > j}

\* C19: update_from ends with the IndexGap error whenever the diff leaves an
\* index without an entry where no detached instance stands and a key of the
\* diff lies beyond it; the gap is not padded and the key is not dropped.
C19_GapRaisesIndexGap ==
    (lc_pc = "done" /\ lc_gap # {}) => lc_error = "IndexGap"

\* the pivot: the first index of the list as entered whose key is in the
\* diff, the length of the list if the diff addresses none of them
lc_pivot ==
    LET addressed == {i \in 0..(Len(lc_before) - 1) : i \in lc_keys}
    IN IF addressed = {} THEN Len(lc_before) ELSE Min(addressed)

\* C20: update_from leaves the instances before the pivot untouched: each is
\* still at its position, none was inserted again, and no insert was made at
\* an index before the pivot.  When the diff addresses no index of the list,
\* that is every instance of the list.
C20_PrefixBeforePivotUntouched ==
    lc_pc = "done" =>
        /\ Len(container_layout) >= lc_pivot
        /\ \A i \in 1..lc_pivot :
              /\ container_layout[i] = lc_before[i]
              /\ \A j \in DOMAIN lc_inserts : lc_inserts[j].inst # lc_before[i].inst
        /\ \A j \in DOMAIN lc_inserts : lc_inserts[j].idx >= lc_pivot

\* C20 witness: a call that returned after it detached the widgets from a
\* pivot inside the list on and placed them in another order
C20_TailReorderedBehindPrefix ==
    /\ lc_pc = "done"
    /\ lc_error = "none"
    /\ lc_pivot >= 1
    /\ lc_pivot < Len(lc_before)
    /\ Len(lc_inserts) >= 2
    /\ container_layout # lc_before

\* the list without its entry at index k (k counted from 0)
without_index(l, k) == SubSeq(l, 1, k) \o SubSeq(l, k + 2, Len(l))

\* the fully renumbered diff of the removal of index k: every later id one
\* index down and a tombstone for the last index
removal_diff(l, k) ==
    [key \in {<<elem, i>> : i \in k..(Len(l) - 1)} |->
        IF key[2] = Len(l) - 1 THEN None ELSE l[key[2] + 2].name]

\* C21: update_from with the fully renumbered diff of the removal of one
\* index returns and yields the list without that entry, the others in their
\* order and with their instances (['a','b','c'] with {0:'b', 1:'c', 2: None}
\* gives ['b','c']).
C21_RenumberedRemovalYieldsRest ==
    \A k \in 0..(Len(lc_before) - 1) :
        (lc_pc = "done" /\ idx_to_id = removal_diff(lc_before, k)) =>
            /\ lc_error = "none"
            /\ container_layout = without_index(lc_before, k)

\* C24: update_from on an empty list with the diff {0: 'x'} returns and
\* yields a list of one newly made instance of 'x'.
C24_FirstEntryMaterialized ==
    \A x \in AllIds :
        (lc_pc = "done" /\ lc_before = <<>> /\ idx_to_id = (<<elem, 0>> :> x)) =>
            /\ lc_error = "none"
            /\ ids_of(container_layout) = <<x>>
            /\ lc_made = <<x>>

-----------------------------------------------------------------------------
(* Claims about the while loop of update_from, under SpecLoop *)

\* the key was tombstoned, or an insert at its index placed a widget of its id
lc_addressed(k) ==
    \/ idx_to_id[k] = None
    \/ \E j \in DOMAIN lc_inserts :
          /\ lc_inserts[j].idx = k[2]
          /\ \/ \E i \in DOMAIN lc_before : /\ lc_inserts[j].inst = lc_before[i].inst
                                             /\ lc_before[i].name = idx_to_id[k]
             \/ lc_inserts[j].inst \notin InstsOf(lc_before)

\* C22: update_from terminates (it returns or raises) for every list and
\* every diff, and when it returns every key of the diff for the slot name
\* has been placed or tombstoned.
C22_LoopTerminatesAllKeysAddressed ==
    /\ <>(wl_pc \in {"returned", "raised"})
    /\ [](wl_pc = "returned" => \A k \in DOMAIN idx_to_id : lc_addressed(k))

\* C22 witness: the loop returned after a tombstone, an original widget put
\* back at an index without entry and a placement from the diff
C22_LoopReturnedAfterThreeIterations ==
    /\ wl_pc = "returned"
    /\ Len(lc_inserts) >= 2
    /\ \E k \in DOMAIN idx_to_id : idx_to_id[k] = None
    /\ \E k \in DOMAIN idx_to_id : idx_to_id[k] # None

-----------------------------------------------------------------------------
(* Claims about the store write of update_panel, under SpecUpdate *)

\* the given dict as a mapping, the empty mapping for None
given(dict) == IF dict = None THEN <<>> ELSE dict_map(dict)

\* slots(P) and attributes(P) as read back from a store: the mappings of
\* get_slots_dict and get_attributes_dict, a None result read as no entry
slots_read(d) == get_slots_dict(d, up_panel.name).map
attributes_read(d) ==
    LET a == get_attributes_dict(d, up_panel.name, up_panel.type).map
    IN [c \in (DOMAIN a) \ {"panelid"} |-> a[c]]

\* the overlay of a diff onto a mapping: the tombstoned keys absent, the
\* diff's other entries with the diff's value, the rest as before
Overlay(prior, diff, tombstoned) ==
    [k \in ((DOMAIN prior) \cup (DOMAIN diff)) \ tombstoned |->
        IF k \in DOMAIN diff THEN diff[k] ELSE prior[k]]

\* the slot keys a slots dict maps to None
Tombstoned(dict) == IF dict = None THEN {} ELSE {k \in dict_keys(dict) : dict_get(dict, k) = None}

C7_FailedWriteCommitsNothing ==
    (up_pc = "raised" /\ ~up_written) => disk = db_before

\* C16: applying the same diff to the same panel through the store write a
\* second time leaves the store as the first application left it.
C16_SecondWriteChangesNothing ==
    up_pc \in {"returned", "raised", "hung"} =>
        LET again == store_write(db, disk, up_panel, up_attrs, up_slots)
        IN /\ again.db = db
           /\ again.disk = disk

\* C16 witness: a write that changed the store, by a diff that emptied a
\* filled slot and filled an empty one
C16_FirstWriteChangedStore ==
    /\ up_pc = "returned"
    /\ up_written
    /\ db # db_before
    /\ up_slots # None
    /\ \E i, j \in DOMAIN up_slots :
          /\ up_slots[i][2] = None
          /\ <<up_panel.name, up_slots[i][1][1], up_slots[i][1][2]>> \in DOMAIN db_before.Slots
          /\ up_slots[j][2] # None
          /\ <<up_panel.name, up_slots[j][1][1], up_slots[j][1][2]>> \notin DOMAIN db_before.Slots

\* the attribute rows of a store, the rows of the submitting panel left out
rows_of_others(d) ==
    [t \in DOMAIN d.Rows |-> [r \in (DOMAIN d.Rows[t]) \ {up_panel.name} |-> d.Rows[t][r]]]

\* C27: update_panel removes no panel and touches no other panel's
\* attributes: the Panels table, the attribute tables and the panels that
\* have a row in them are as before, and so is every row but the
\* submitting panel's, also when the diff tombstones edges.
C27_UpdateKeepsPanelsAndOtherRows ==
    up_pc \in {"returned", "raised", "hung"} =>
        /\ db.Panels = db_before.Panels
        /\ disk.Panels = db_before.Panels
        /\ \A t \in DOMAIN db.Rows : DOMAIN db.Rows[t] = DOMAIN db_before.Rows[t]
        /\ rows_of_others(db) = rows_of_others(db_before)
        /\ rows_of_others(disk) = rows_of_others(db_before)

\* C27 witness: a write tombstoned the last edge that referenced a panel,
\* and the panel is still in the Panels table
C27_LastEdgeOfChildTombstoned ==
    /\ up_pc = "returned"
    /\ up_written
    /\ \E k \in DOMAIN db_before.Slots :
          /\ k \notin DOMAIN db.Slots
          /\ \A j \in DOMAIN db.Slots : db.Slots[j] # db_before.Slots[k]
          /\ db_before.Slots[k] \in DOMAIN db.Panels

-----------------------------------------------------------------------------
(* Claims about find_subpanel, under SpecPaths *)

\* the panel a sequence of (slot_name, slot_num) steps leads to from a panel,
\* None if a step names a slot that holds nothing
RECURSIVE Follow(_, _, _)
Follow(d, from, steps) ==
    IF steps = <<>> THEN from
    ELSE IF <<from, steps[1][1], steps[1][2]>> \in DOMAIN d.Slots
         THEN Follow(d, d.Slots[<<from, steps[1][1], steps[1][2]>>], Tail(steps))
         ELSE None

\* the (slot_name, slot_num) pairs the slot table uses
StepsOf(d) == {<<k[2], k[3]>> : k \in DOMAIN d.Slots}

\* the step sequences of at most n steps
RECURSIVE StepSeqs(_, _)
StepSeqs(steps, n) ==
    IF n = 0 THEN {<<>>}
    ELSE {<<>>} \cup {<<x>> \o q : x \in steps, q \in StepSeqs(steps, n - 1)}

\* the directed walks through slot edges from root to target, of at most as
\* many steps as the table names ids (every walk, when no cycle lies below root)
Walks(d, root, target) ==
    {q \in StepSeqs(StepsOf(d), Cardinality(graph_nodes(d, root))) : Follow(d, root, q) = target}

\* the ids some walk of at least `least` steps reaches from a panel
Below(d, from, least) ==
    {n \in graph_nodes(d, from) :
        \E q \in StepSeqs(StepsOf(d), Cardinality(graph_nodes(d, from))) :
            Len(q) >= least /\ Follow(d, from, q) = n}

\* a panel below root (root included) is its own descendant
CycleBelow(d, root) == \E n \in Below(d, root, 0) : n \in Below(d, n, 1)

C9_FindSubpanelTerminates == fs_pc # "hung"

-----------------------------------------------------------------------------
(* Claims about the fan-out of update_panel, under SpecUpdate *)

\* C10: once the write of update_panel has succeeded, every window of the
\* registry gets pass_down_changes exactly once for every path from its root
\* to the panel.
C10_EveryOccurrenceNotifiedOnce ==
    (up_pc # "ready" /\ up_written) =>
        \A i \in DOMAIN windows : \A w \in windows[i].wins :
            \A q \in Walks(db, windows[i].root, up_panel.name) :
                Cardinality({c \in DOMAIN up_calls :
                                up_calls[c] = [window |-> w.inst, path |-> q]}) = 1

\* the windows show the store as it was when update_panel was entered
views_untouched ==
    \A i \in DOMAIN windows : \A w \in windows[i].wins :
        w = live_widget(db_before, w.name, w.inst)

\* C11: when the write of update_panel fails, no pass_down_changes call is
\* made and no window is modified; a call is made only after the write is
\* complete and committed.
C11_FailedWriteNotifiesNobody ==
    /\ (up_pc = "raised" /\ ~up_written) => (up_calls = <<>> /\ views_untouched)
    /\ up_calls # <<>> => (up_written /\ disk = db)

\* C11 witness: the write failed while a window on the submitting panel was open
C11_WriteFailedWithWindowOpen ==
    /\ up_pc = "raised"
    /\ ~up_written
    /\ up_error = "OperationalError"
    /\ \E i \in DOMAIN windows : windows[i].root = up_panel.name

-----------------------------------------------------------------------------
(* Claims about the views and the store under user edits, under SpecEdit *)

\* the slot numbers the store records for a panel's slot name
stored_nums(d, panelid, slot_name) == {k[3] : k \in {j \in DOMAIN d.Slots : j[1] = panelid /\ j[2] = slot_name}}

\* the child ids the store records for a panel's slot name, in index order
stored_children(d, panelid, slot_name) ==
    LET nums == stored_nums(d, panelid, slot_name)
        nth(i) == CHOOSE n \in nums : Cardinality({m \in nums : m < n}) = i - 1
    IN [i \in 1..Cardinality(nums) |-> d.Slots[<<panelid, slot_name, nth(i)>>]]

\* every live shelf shows the children the store records for it
views_reflect_store ==
    \A w \in live_widgets :
        w.type = "vshelf" =>
            [i \in DOMAIN w.layout |-> w.layout[i].name] = stored_children(db, w.name, elem)

\* C12: once an update_panel call has returned, every open view shows, at
\* every live occurrence of every panel, the children the store records.
C12_ViewsReflectStoreAfterReturn ==
    (ed_pc = "open" /\ up_pc = "returned") => views_reflect_store

\* C13: after every committed update_panel call the slot numbers stored for
\* a list are 0..N-1 for some N.
C13_StoredIndicesContiguous ==
    (ed_pc # "off" /\ up_written) =>
        \A p \in DOMAIN db.Panels :
            stored_nums(db, p, elem) = 0..(Cardinality(stored_nums(db, p, elem)) - 1)

-----------------------------------------------------------------------------
(* Claims about the order of the fan-out, under SpecUpdate *)

\* C17: the views update_panel leaves do not depend on the order of the
\* deliveries: every order the loops over the windows of an entry and over
\* the paths can take leaves every view with the same contents.
C17_ViewsIndependentOfDeliveryOrder ==
    [][up_pc = "ready" =>
          \A o \in update_panel_outcomes(db, disk, windows, up_panel, up_attrs, up_slots) :
              o.windows = windows']_vars

-----------------------------------------------------------------------------
(* Claims about a repeated delivery, under SpecReapply *)

\* C18: a diff applied again to the container it was applied to is a no-op:
\* the second update_from returns and the container holds the same ids in
\* the same order, for a list and for a single container.
C18_ReapplyIsNoOp ==
    ra_pc = "reapplied" =>
        /\ lc_error = "none"
        /\ ids_of(container_layout) = ids_of(ra_first)

\* C23: SingleContainer.update_from keeps at most one widget in the
\* container; a diff without the key (slot, 0) leaves the occupant, a
\* tombstone removes it, an id replaces it by a widget of that id, and an
\* occupant of the incoming id stays the same instance.
C23_SingleContainerContract ==
    (ra_kind = "single" /\ ra_pc \in {"applied", "raised"}) =>
        /\ Len(container_layout) <= 1
        /\ <<elem, 0>> \notin DOMAIN idx_to_id => container_layout = lc_before
        /\ <<elem, 0>> \in DOMAIN idx_to_id =>
              IF idx_to_id[<<elem, 0>>] = None
              THEN container_layout = <<>>
              ELSE /\ ids_of(container_layout) = <<idx_to_id[<<elem, 0>>]>>
                   /\ ids_of(lc_before) = <<idx_to_id[<<elem, 0>>]>> => container_layout = lc_before

-----------------------------------------------------------------------------
(* Claims about the references of the store, under SpecEdit *)

\* every row of Slots in a store names panels of its Panels table
edges_name_panels(d) ==
    \A k \in DOMAIN d.Slots : k[1] \in DOMAIN d.Panels /\ d.Slots[k] \in DOMAIN d.Panels

\* C25: in every store state, committed or read by the connection, the
\* parent and the child of every slot edge are ids of the Panels table,
\* whatever was dropped, removed or submitted.
C25_EdgesNamePanels ==
    edges_name_panels(db) /\ edges_name_panels(disk)

-----------------------------------------------------------------------------
(* Claims about the store under a sequence of calls, under SpecStore *)

\* C26: the type of a panel is the type its row was created with: for every
\* id of the Panels table type_of_panel returns the module the row had when
\* it first appeared, in the connection and in what is committed.
C26_TypeFixedAtCreation ==
    /\ \A id \in DOMAIN db.Panels : type_of_panel(db, id) = so_born[id]
    /\ \A id \in DOMAIN disk.Panels : type_of_panel(disk, id) = so_born[id]
    /\ DOMAIN so_born \subseteq DOMAIN db.Panels

\* C26 witness: an invent_panel for an id that exists with another type was
\* refused after panels and types had been created
C26_SecondCreationRefused ==
    /\ so_last.op = "invent_panel"
    /\ so_error = "IntegrityError"
    /\ so_last.id \in DOMAIN db_before.Panels
    /\ db_before.Panels[so_last.id] # so_last.type
    /\ so_count >= 2

\* the type is registered in a store: its registry panel exists
registered(d, t) == t \in DOMAIN d.Panels /\ d.Panels[t] = "type"

\* C28: try_init_type_in_db is idempotent: the first call for a type returns
\* and leaves the registry panel (id = the type, module 'type') and, for a
\* type with attributes, its table; every later call returns and changes
\* nothing, whatever was created in between.
C28_TryInitIdempotent ==
    so_last.op = "try_init_type_in_db" =>
        /\ so_error = "none"
        /\ registered(db, so_last.type)
        /\ attributes(so_last.type) # {} => so_last.type \in DOMAIN db.Rows
        /\ ~so_last.first => (db = db_before /\ so_log = <<>>)

\* the stores the last call committed and the stores it left
so_stores == {so_log[i] : i \in DOMAIN so_log} \cup {db, disk}

\* C29: in every store state an attribute table exists for a type exactly
\* when the type is registered and declares an attribute.
C29_TableIffRegisteredWithAttributes ==
    \A d \in so_stores : \A t \in PanelTypes :
        (t \in DOMAIN d.Rows) <=> (registered(d, t) /\ attributes(t) # {})

-----------------------------------------------------------------------------
(* Claims about invent_panel, under SpecInvent *)

\* the Panels row of an id in a store, None if there is none
panel_row(d, panelid) == IF panelid \in DOMAIN d.Panels THEN d.Panels[panelid] ELSE None

\* the cases in which the creation is to be refused; of the registered
\* classes PType alone declares that users cannot create it
EmptyId == iv_id = ""
DuplicateId == iv_id \in DOMAIN db_before.Panels
UnknownType == iv_type \notin PanelTypes
TypeNotUserCreatable == iv_type = "type"

\* C14: invent_panel fails and creates no panel row for the id when the id
\* is empty, when a panel of that id exists, when the type is not registered
\* and when the type does not allow user creation.
C14_RefusedCreationsFail ==
    (iv_pc # "ready" /\ (EmptyId \/ DuplicateId \/ UnknownType \/ TypeNotUserCreatable)) =>
        /\ iv_pc = "raised"
        /\ panel_row(db, iv_id) = panel_row(db_before, iv_id)
        /\ panel_row(disk, iv_id) = panel_row(db_before, iv_id)
        /\ \A i \in DOMAIN iv_commits : panel_row(iv_commits[i], iv_id) = panel_row(db_before, iv_id)

\* C14 witness: the creation of a panel whose id exists was refused after
\* the type was initialized by the same call
C14_DuplicateRefused ==
    /\ iv_pc = "raised"
    /\ DuplicateId
    /\ ~EmptyId /\ ~UnknownType /\ ~TypeNotUserCreatable
    /\ iv_commits # <<>>

\* C15: the panel row and its default attribute values are committed as one
\* unit: no commit leaves the panel row of the id with attributes that are
\* not the defaults of its type.
C15_CreationCommittedAsOneUnit ==
    \A i \in DOMAIN iv_commits :
        (iv_id \notin DOMAIN db_before.Panels /\ panel_row(iv_commits[i], iv_id) = iv_type) =>
            \A c \in attributes(iv_type) :
                iv_commits[i].Rows[iv_type][iv_id][c] = dict_get(default_attributes(iv_type), c)

\* C36: a failed invent_panel leaves the store as it was before the call:
\* nothing was committed and neither the connection nor the file holds a row
\* or a table the call added.
C36_FailedCreationLeavesStore ==
    iv_pc = "raised" => (iv_commits = <<>> /\ db = db_before /\ disk = db_before)

-----------------------------------------------------------------------------
(* Claims about the launch, under SpecSingle *)

\* the processes in the server state
primaries == {p \in Procs : sa_pc[p] = "serving" /\ sa_running[p] = 1}

\* C30: at most one process is in the server state running = 1 at any time,
\* and every instance that ended without having been the server ended with
\* running = -1 after connecting to the server.
C30_OnePrimaryOthersPassArguments ==
    /\ Cardinality(primaries) <= 1
    /\ \A p \in Procs :
          (sa_pc[p] = "exited" /\ sa_running[p] # 1) => (sa_running[p] = 0 - 1 /\ sa_peer[p] # 0)

\* nothing is left for the server to do: no connection queued, no readyRead
\* due on a connected socket, no instance about to write
sa_quiet ==
    /\ sa_pending = <<>>
    /\ sa_readyRead \cap sa_accepted = {}
    /\ \A p \in Procs : sa_pc[p] # "found"

\* the instances that wrote their arguments to the server that is still serving
sa_passed == {p \in Procs : sa_pc[p] = "exited" /\ sa_running[p] = 0 - 1
                              /\ sa_listening[sa_peer[p]]}

\* C31: the tuple of every secondary that connected to the primary is emitted
\* through args_received exactly once and unaltered: no emission carries an
\* empty message, none is repeated, and once the server has nothing left to
\* do the tuple of every secondary that wrote to it has been emitted.
C31_ArgsEmittedOnceUnaltered ==
    /\ \A i \in DOMAIN sa_received : sa_received[i].args # 0
    /\ \A i, j \in DOMAIN sa_received : i # j => sa_received[i] # sa_received[j]
    /\ sa_quiet => \A p \in sa_passed :
                      \E i \in DOMAIN sa_received : sa_received[i] = [at |-> sa_peer[p], args |-> p]

-----------------------------------------------------------------------------
(* Claims about the first edit of a list that agrees with the store, under  *)
(* SpecRemoval and SpecEdit                                                 *)

\* the index the handler's diff starts at: the removed or the inserted index
ed_idx == up_slots[1][1][2]

\* the list the store recorded for the submitting panel before the edit
ed_former == stored_children(db_before, up_panel.name, elem)

\* C32: request_removal of the widget at index k of a list that agrees with
\* the store submits a diff covering k..N-1: update_panel returns, the store
\* holds the former list without entry k at the indices 0..N-2, and every
\* view of the list holds the former widgets without the one at k, in their
\* order.
C32_RemovalYieldsFormerListWithoutEntry ==
    (ed_count = 1 /\ ed_last = "request_removal") =>
        /\ up_pc = "returned"
        /\ dict_keys(up_slots) = {<<elem, i>> : i \in ed_idx..(Len(ed_former) - 1)}
        /\ stored_children(db, up_panel.name, elem) = without_index(ed_former, ed_idx)
        /\ stored_nums(db, up_panel.name, elem) = 0..(Len(ed_former) - 2)
        /\ \A w \in live_widgets :
              w.name = up_panel.name =>
                  w.layout = without_index(live_widget(db_before, w.name, w.inst).layout, ed_idx)

\* the former list with the id inserted in front of index k
with_index(l, k, x) == SubSeq(l, 1, k) \o <<x>> \o SubSeq(l, k + 1, Len(l))

\* C33: request_addition(panelid, idx), 0 <= idx <= N, on a list that agrees
\* with the store submits a diff covering idx..N: update_panel returns, the
\* store holds the former list with panelid inserted at idx, and every view
\* of the list has length N+1 with panelid at idx and the former widgets, the
\* same instances, around it in their order.
C33_AdditionYieldsFormerListWithEntry ==
    (ed_count = 1 /\ ed_last = "dropEvent") =>
        /\ up_pc = "returned"
        /\ dict_keys(up_slots) = {<<elem, i>> : i \in ed_idx..Len(ed_former)}
        /\ stored_children(db, up_panel.name, elem) = with_index(ed_former, ed_idx, up_slots[1][2])
        /\ \A w \in live_widgets :
              w.name = up_panel.name =>
                  /\ Len(w.layout) = Len(ed_former) + 1
                  /\ w.layout[ed_idx + 1].name = up_slots[1][2]
                  /\ without_index(w.layout, ed_idx) = live_widget(db_before, w.name, w.inst).layout

-----------------------------------------------------------------------------
(* Claims about get_slot_widget, under SpecSlot *)

\* C34: for every container class, get_slot_widget on a declared, filled slot
\* key returns the panel occupying that slot, and the pass_down_changes step
\* through the slot reaches that panel; a matrix cell is no exception.
C34_SlotWidgetIsOccupant ==
    (gs_slot \in DOMAIN gs_widget.held) =>
        /\ gs_pc # "raised"
        /\ gs_pc \in {"got", "delivered"} =>
              /\ gs_ret.kind = "panel"
              /\ gs_ret.at = gs_slot
              /\ gs_ret.name = gs_widget.held[gs_slot]

-----------------------------------------------------------------------------
(* Claims about materializing a view, under SpecEdit *)

\* C35: materializing a view terminates with a widget: every create_window,
\* on every store the user's edits can leave (a panel dropped into its own
\* list included), gets its widget from make_panel_widget and registers it.
C35_MaterializationReturns ==
    [][(ed_last' = "create_window" /\ ed_count' # ed_count) => windows' # windows]_vars

-----------------------------------------------------------------------------
(* Claims about the window registry, under SpecWindows *)

\* C37: the registry is exact: its windows are the windows create_window
\* registered whose closed signal has not been handled, no entry holds an
\* empty set, window_closed is called only for a registered window (it never
\* raises KeyError), and a create_window that failed registered nothing.
C37_RegistryExact ==
    /\ registered_windows = wr_opened \ wr_closed
    /\ \A i \in DOMAIN windows : windows[i].wins # {}
    /\ ed_last \in {"close_event", "deferred_delete"} => wr_error = "none"
    /\ (ed_last = "create_window" /\ wr_error # "none") => registered_windows \subseteq wr_opened

-----------------------------------------------------------------------------
(* Claims about the start of the manager, under SpecSingle *)

-----------------------------------------------------------------------------
(* Claims about the reach of an update, under SpecUpdate *)

\* the view a window showed when the diff was submitted
view_before(w) == live_widget(db_before, w.name, w.inst)

\* the windows of the registry
shown == UNION {windows[i].wins : i \in DOMAIN windows}

\* the slots of the submitted diff
up_keys == IF up_slots = None THEN {} ELSE {up_slots[i][1] : i \in DOMAIN up_slots}

\* a view that does not contain the panel receives no call and stays as it was
C39_ViewsWithoutPanelUntouched ==
    \A w \in shown :
        up_panel.name \notin {x.name : x \in widgets_in(view_before(w))} =>
            /\ \A c \in DOMAIN up_calls : up_calls[c].window # w.inst
            /\ w = view_before(w)

\* in a view that holds the panel below its root, the root and the children
\* that are other panels stay as they were
C39_OthersAroundPanelKept ==
    \A w \in shown :
        LET b == view_before(w)
        IN (b.name # up_panel.name /\ up_panel.name \in {x.name : x \in widgets_in(b)}) =>
              /\ w.text = b.text
              /\ Len(w.layout) = Len(b.layout)
              /\ \A j \in DOMAIN b.layout :
                    /\ w.layout[j].inst = b.layout[j].inst
                    /\ b.layout[j].name # up_panel.name => w.layout[j] = b.layout[j]

\* at an occurrence of the panel, the children in slots the diff does not
\* name stay where they were
C39_ChildrenOutsideDiffKept ==
    \A w \in shown :
        LET b == view_before(w)
        IN b.name = up_panel.name =>
              \A j \in DOMAIN b.layout :
                  <<elem, j - 1>> \notin up_keys => (j \in DOMAIN w.layout /\ w.layout[j] = b.layout[j])

\* C39: update_panel(P, ...) changes only occurrences of P: a view that does
\* not contain P receives no pass_down_changes call, and in a view that
\* contains P every widget that is not an occurrence of P, nor a child in a
\* slot the diff names, keeps its instance, position and contents
C39_UpdateTouchesOnlyOccurrences ==
    /\ C39_ViewsWithoutPanelUntouched
    /\ C39_OthersAroundPanelKept
    /\ C39_ChildrenOutsideDiffKept

-----------------------------------------------------------------------------
(* Claims about the containers of one panel, under SpecFill *)

\* the slot names the diff has a key for
fl_named == {k[1] : k \in DOMAIN fl_diff}

\* C40: a container reacts only to diff keys that carry its own slot name:
\* given the whole diff of its panel with no key for its slot name, its
\* update_from detaches nothing, materializes nothing, raises nothing and
\* leaves the contents of the container as they were
C40_ContainerIgnoresForeignKeys ==
    /\ \A i \in DOMAIN fl_log :
          fl_log[i].slot \notin fl_named =>
              /\ fl_log[i].after = fl_log[i].before
              /\ fl_log[i].made = <<>>
              /\ fl_log[i].error = "none"
    /\ \A c \in DOMAIN fl_before :
          fill_order(fl_widget.type)[c] \notin fl_named => fl_widget.held[c] = fl_before[c]

\* C40 witness: fill_slots has called update_from on a filled container the
\* diff has no key for, and a key of the diff has changed another container
C40_Witness ==
    /\ fl_pc = "returned"
    /\ \E i, j \in DOMAIN fl_log :
          /\ fl_log[i].slot \notin fl_named
          /\ fl_log[i].before # <<>>
          /\ fl_log[j].slot \in fl_named
          /\ fl_log[j].after # fl_log[j].before

====
